---- MODULE Spec2Model ----
(***************************************************************************)
(* Key rotation and retry around the LLM call, as implemented twice in the *)
(* repository:                                                             *)
(*   Backend/src/utils/llm.py   (KeyManager with rotate_key / reset and a  *)
(*                               generate_response with a retry budget)    *)
(*   backend/modules/llm.py     (KeyManager with get_next_key / reset and  *)
(*                               a generate_response that loops)           *)
(* The two files belong to two separate applications; the variable app     *)
(* says which of them the process runs.                                    *)
(*                                                                         *)
(* Strings are modelled as sequences of tokens, so that str.lower(), the   *)
(* substring test and the f-string wrapping of an error message are        *)
(* computed and not assumed.                                               *)
(***************************************************************************)
EXTENDS Integers, Sequences, FiniteSets, TLC

\* ------------------------------------------------------------------ bounds
MaxFallbacks == 3
MaxRetries == 3
NumProcs == 2
MaxRotateCalls == 5

Procs == 1..NumProcs

\* ----------------------------------------------------------------- strings
\* str.lower() on one token (Backend/src/utils/llm.py line 99)
LowerToken(t) ==
  CASE t = "QUOTA" -> "quota"
    [] t = "Rate limit" -> "rate limit"
    [] t = "RESOURCE_" -> "resource_"
    [] t = "EXHAUSTED" -> "exhausted"
    [] t = "_EXCEEDED" -> "_exceeded"
    [] t = " Too Many Requests" -> " too many requests"
    [] t = "Invalid request format" -> "invalid request format"
    [] t = "Empty response from LLM" -> "empty response from llm"
    [] t = "LLM generation failed: " -> "llm generation failed: "
    [] t = "All API keys " -> "all api keys "
    [] t = "Max retries exceeded" -> "max retries exceeded"
    [] OTHER -> t

Lower(s) == [i \in 1..Len(s) |-> LowerToken(s[i])]

\* Python's `needle in hay` on token sequences
Contains(hay, needle) ==
  \E i \in 0..(Len(hay) - Len(needle)) :
     SubSeq(hay, i + 1, i + Len(needle)) = needle

\* ------------------------------------------------------ the external LLM
\* Python values of response.text: None, or a str
PyNone == [is_none |-> TRUE, s |-> <<>>]
Str(s) == [is_none |-> FALSE, s |-> s]
Truthy(v) == ~v.is_none /\ v.s # <<>>

\* the error messages the LLM capability is taken to raise (those of
\* Backend/tests/test_llm.py, and Gemini's RESOURCE_EXHAUSTED status)
ErrorMessages ==
  { <<"quota", " ", "exhausted">>,
    <<"QUOTA", "_EXCEEDED">>,
    <<"Rate limit", " ", "exceeded">>,
    <<"429", " Too Many Requests">>,
    <<"RESOURCE_", "EXHAUSTED">>,
    <<"resource_", "exhausted">>,
    <<"Invalid request format">>,
    <<"Empty response from LLM">> }

NoOutcome == [kind |-> "nothing", text |-> PyNone, type |-> "", msg |-> <<>>]
Response(v) == [kind |-> "response", text |-> v, type |-> "", msg |-> <<>>]
NoResponse == [kind |-> "none", text |-> PyNone, type |-> "", msg |-> <<>>]
Error(t, m) == [kind |-> "error", text |-> PyNone, type |-> t, msg |-> m]

\* what one awaited LLM call can come back with
LLMOutcomes ==
  { Response(Str(<<"Finally successful">>)), Response(Str(<<>>)),
    Response(PyNone), NoResponse }
  \cup { Error("Exception", m) : m \in ErrorMessages }

\* ------------------------------------------ what a call reports to its caller
Pending == [kind |-> "pending", value |-> PyNone, type |-> "", msg |-> <<>>,
            cause |-> <<>>]
Return(v) == [kind |-> "return", value |-> v, type |-> "", msg |-> <<>>,
              cause |-> <<>>]
Raise(t, m, c) == [kind |-> "raise", value |-> PyNone, type |-> t, msg |-> m,
                   cause |-> c]

\* ------------------------------------- Backend/src/utils/llm.py: KeyManager
PrimaryKey == "primary-key"
FallbackNames ==
  <<"fallback-1", "fallback-2", "fallback-3", "fallback-4", "fallback-5",
    "fallback-6">>
FallbackKey(i) == FallbackNames[i]

\* KeyManager.__init__ with n numbered fallback slots set
KeyManager(n) ==
  [primary_key |-> PrimaryKey,
   fallback_keys |-> [i \in 1..n |-> FallbackKey(i)],
   current_key_index |-> -1]

get_current_key(km) ==
  IF km.current_key_index = -1
    THEN km.primary_key
    ELSE km.fallback_keys[km.current_key_index + 1]

rotate_key_wraparound(km) ==
  IF km.current_key_index < Len(km.fallback_keys) - 1
    THEN [km |-> [km EXCEPT !.current_key_index = @ + 1], ret |-> TRUE]
    ELSE [km |-> [km EXCEPT !.current_key_index = -1], ret |-> TRUE]

rotate_key(km) ==
  IF km.current_key_index < Len(km.fallback_keys) - 1
    THEN [km |-> [km EXCEPT !.current_key_index = @ + 1], ret |-> TRUE]
    ELSE [km |-> km, ret |-> FALSE]

reset_to_first(km) == [km EXCEPT !.current_key_index = 0]

reset(km) == [km EXCEPT !.current_key_index = -1]

\* ------------------------- Backend/src/utils/llm.py: KeyManager.__init__
\* os.environ: slot 1 is GEMINI_API_KEY, slot i >= 2 is GEMINI_API_KEY_i;
\* a variable is unset, or set to a string (the empty string included)
MaxSlot == MaxFallbacks + 1
Unset == [set |-> FALSE, value |-> ""]
EnvSet(v) == [set |-> TRUE, value |-> v]
SlotKey(i) == IF i = 1 THEN PrimaryKey ELSE FallbackKey(i - 1)
Envs ==
  { e \in [1..MaxSlot -> {Unset, EnvSet("")}
                          \cup {EnvSet(SlotKey(i)) : i \in 1..MaxSlot}] :
      \A i \in 1..MaxSlot :
        (e[i].set /\ e[i].value # "") => e[i].value = SlotKey(i) }
\* the environment in which the primary key and n fallback slots are set
EnvOf(n) ==
  [i \in 1..MaxSlot |-> IF i <= n + 1 THEN EnvSet(SlotKey(i)) ELSE Unset]

\* os.getenv(name): None when the variable is unset
getenv(e, i) == IF i \in DOMAIN e THEN e[i] ELSE Unset

is_falsy_unset_only(v) == ~v.set

\* Python's `not key` on what os.getenv returned: None and "" are falsy
is_falsy(v) == ~v.set \/ v.value = ""

RECURSIVE load_fallback_keys(_, _)
load_fallback_keys_skips_gaps(e, i) ==
  LET rest == [j \in 1..(MaxSlot + 1 - i) |-> getenv(e, i + j - 1)]
      set == SelectSeq(rest, LAMBDA v : ~is_falsy(v))
  IN [j \in 1..Len(set) |-> set[j].value]

\* the loop of __init__ from slot i on: it stops at the first falsy slot
load_fallback_keys(e, i) ==
  LET key == getenv(e, i) IN
    IF is_falsy(key)
      THEN <<>>
      ELSE <<key.value>> \o load_fallback_keys(e, i + 1)

MustBeSetMsg == <<"GEMINI_API_KEY must be set", " in environment">>

\* key_manager before KeyManager() ran, and after it raised
NoKeyManager ==
  [primary_key |-> "", fallback_keys |-> <<>>, current_key_index |-> -1]

KeyManager_init(e) ==
  LET primary_key == getenv(e, 1) IN
    IF is_falsy(primary_key)
      THEN [result |-> Raise("ValueError", MustBeSetMsg, <<>>),
            km |-> NoKeyManager]
      ELSE [result |-> Return(PyNone),
            km |-> [primary_key |-> primary_key.value,
                    fallback_keys |-> load_fallback_keys(e, 2),
                    current_key_index |-> -1]]

\* ------------------------------ Backend/src/utils/llm.py: generate_response
EmptyResponseMsg == <<"Empty response from LLM">>
KeysExhaustedMsg == <<"All API keys ", "exhausted">>
MaxRetriesMsg == <<"Max retries exceeded">>
GenerationFailedPrefix == <<"LLM generation failed: ">>

is_quota_error_truthy(error_message) ==
  \/ TRUE    \* `"quota" or "rate limit" in error_message`
  \/ Contains(error_message, <<"rate limit">>)

\* line 102: the test on the lower-cased message
is_quota_error(error_message) ==
  \/ Contains(error_message, <<"quota">>)
  \/ Contains(error_message, <<"rate limit">>)
  \/ Contains(error_message, <<"429">>)

loop_condition_strict(retries, max_retries) == retries < max_retries

\* line 78: the loop condition
loop_condition(retries, max_retries) == retries <= max_retries

is_empty_response_object_only(o) == o.kind = "none"

\* lines 92-93: the check that turns an unusable response into an error
is_empty_response(o) == o.kind = "none" \/ ~Truthy(o.text)

IdleCall ==
  [pc |-> "idle", max_retries |-> 0, retries |-> 0, current_key |-> "",
   llm_calls |-> 0, rotations |-> <<>>, start_index |-> -1,
   outcomes |-> <<>>, last |-> NoOutcome, result |-> Pending,
   rejected |-> {}, rot_from |-> "", rot_failed |-> ""]

attempt_wrong_error(c, km) ==
  IF loop_condition(c.retries, c.max_retries)
    THEN [c EXCEPT !.pc = "await", !.current_key = get_current_key(km),
                   !.llm_calls = @ + 1]
    ELSE [c EXCEPT !.pc = "done",
                   !.result = Raise("Exception", KeysExhaustedMsg, <<>>)]

attempt_once_more(c, km) ==
  IF c.retries <= c.max_retries + 1
    THEN [c EXCEPT !.pc = "await", !.current_key = get_current_key(km),
                   !.llm_calls = @ + 1]
    ELSE [c EXCEPT !.pc = "done",
                   !.result = Raise("Exception", MaxRetriesMsg, <<>>)]

\* lines 78-89: the top of the loop up to the awaited call, and line 117
\* when the loop is left
attempt(c, km) ==
  IF loop_condition(c.retries, c.max_retries)
    THEN [c EXCEPT !.pc = "await", !.current_key = get_current_key(km),
                   !.llm_calls = @ + 1]
    ELSE [c EXCEPT !.pc = "done",
                   !.result = Raise("Exception", MaxRetriesMsg, <<>>)]

handle_exception_resets(c, km, e) ==
  LET error_message == Lower(e.msg) IN
  IF is_quota_error(error_message)
    THEN LET r == rotate_key(km)
             c1 == [c EXCEPT !.rotations = Append(@, r.ret)]
         IN IF r.ret
              THEN [call |-> attempt([c1 EXCEPT !.retries = @ + 1], r.km),
                    km |-> r.km]
              ELSE [call |-> [c1 EXCEPT !.pc = "done",
                        !.result = Raise("Exception", KeysExhaustedMsg, e.msg)],
                    km |-> reset(r.km)]
    ELSE [call |-> [c EXCEPT !.pc = "done",
              !.result = Raise("Exception", GenerationFailedPrefix \o e.msg,
                               e.msg)],
          km |-> km]

\* lines 98-115: the except clause for exception e = [type, msg]
handle_exception(c, km, e) ==
  LET error_message == Lower(e.msg) IN
  IF is_quota_error(error_message)
    THEN LET r == rotate_key(km)
             c1 == [c EXCEPT !.rotations = Append(@, r.ret)]
         IN IF r.ret
              THEN [call |-> attempt([c1 EXCEPT !.retries = @ + 1], r.km),
                    km |-> r.km]
              ELSE [call |-> [c1 EXCEPT !.pc = "done",
                        !.result = Raise("Exception", KeysExhaustedMsg, e.msg)],
                    km |-> r.km]
    ELSE [call |-> [c EXCEPT !.pc = "done",
              !.result = Raise("Exception", GenerationFailedPrefix \o e.msg,
                               e.msg)],
          km |-> km]

\* lines 89-115: what happens when the awaited call comes back with o
handle_outcome(c, km, o) ==
  IF o.kind = "error"
    THEN handle_exception(c, km, [type |-> o.type, msg |-> o.msg])
    ELSE IF is_empty_response(o)
      THEN handle_exception(c, km, [type |-> "ValueError",
                                    msg |-> EmptyResponseMsg])
      ELSE [call |-> [c EXCEPT !.pc = "done", !.result = Return(o.text)],
            km |-> km]

\* --------------------------------------- backend/modules/llm.py: KeyManager
MainKey == "main-key"

\* KeyManager.__init__ with n fallback keys configured
ModKeyManager(n) ==
  [main_key |-> MainKey,
   fallback_keys |-> [i \in 1..n |-> FallbackKey(i)],
   current_key_index |-> 0,
   tried_keys |-> {},
   client |-> MainKey]

get_next_key_skips_last(km) ==
  IF km.current_key_index = 0
    THEN LET km1 == [km EXCEPT !.tried_keys = @ \cup {km.main_key}] IN
         IF km.fallback_keys # <<>>
           THEN [km |-> [km1 EXCEPT !.current_key_index = 1,
                                    !.client = km.fallback_keys[1]],
                 none |-> FALSE, key |-> km.fallback_keys[1]]
           ELSE [km |-> km1, none |-> TRUE, key |-> ""]
    ELSE LET current_key == km.fallback_keys[km.current_key_index]
             km1 == [km EXCEPT !.tried_keys = @ \cup {current_key}]
         IN IF km.current_key_index < Len(km.fallback_keys) - 1
              THEN LET next_key == km.fallback_keys[km.current_key_index + 1] IN
                   [km |-> [km1 EXCEPT !.current_key_index = @ + 1,
                                       !.client = next_key],
                    none |-> FALSE, key |-> next_key]
              ELSE [km |-> km1, none |-> TRUE, key |-> ""]

get_next_key_wraps(km) ==
  IF km.current_key_index = 0
    THEN LET km1 == [km EXCEPT !.tried_keys = @ \cup {km.main_key}] IN
         IF km.fallback_keys # <<>>
           THEN [km |-> [km1 EXCEPT !.current_key_index = 1,
                                    !.client = km.fallback_keys[1]],
                 none |-> FALSE, key |-> km.fallback_keys[1]]
           ELSE [km |-> km1, none |-> FALSE, key |-> km.main_key]
    ELSE LET current_key == km.fallback_keys[km.current_key_index]
             km1 == [km EXCEPT !.tried_keys = @ \cup {current_key}]
         IN IF km.current_key_index < Len(km.fallback_keys)
              THEN LET next_key == km.fallback_keys[km.current_key_index + 1] IN
                   [km |-> [km1 EXCEPT !.current_key_index = @ + 1,
                                       !.client = next_key],
                    none |-> FALSE, key |-> next_key]
              ELSE [km |-> [km1 EXCEPT !.current_key_index = 0,
                                       !.client = km.main_key],
                    none |-> FALSE, key |-> km.main_key]

\* returns the manager after the call and the returned key (none: None)
get_next_key(km) ==
  IF km.current_key_index = 0
    THEN LET km1 == [km EXCEPT !.tried_keys = @ \cup {km.main_key}] IN
         IF km.fallback_keys # <<>>
           THEN [km |-> [km1 EXCEPT !.current_key_index = 1,
                                    !.client = km.fallback_keys[1]],
                 none |-> FALSE, key |-> km.fallback_keys[1]]
           ELSE [km |-> km1, none |-> TRUE, key |-> ""]
    ELSE LET current_key == km.fallback_keys[km.current_key_index]
             km1 == [km EXCEPT !.tried_keys = @ \cup {current_key}]
         IN IF km.current_key_index < Len(km.fallback_keys)
              THEN LET next_key == km.fallback_keys[km.current_key_index + 1] IN
                   [km |-> [km1 EXCEPT !.current_key_index = @ + 1,
                                       !.client = next_key],
                    none |-> FALSE, key |-> next_key]
              ELSE [km |-> km1, none |-> TRUE, key |-> ""]

mod_reset_keeps_index(km) ==
  [km EXCEPT !.tried_keys = {}, !.client = km.main_key]

\* KeyManager.reset (lines 54-62)
mod_reset(km) ==
  [km EXCEPT !.current_key_index = 0, !.tried_keys = {}, !.client = km.main_key]

\* ------------------------------ backend/modules/llm.py: generate_response
OutOfKeysMsg ==
  <<"OUT_OF_KEYS", ": All available API keys have been ", "exhausted">>
NoneTypeMsg == <<"'NoneType' object has no attribute 'text'">>

\* line 89: the test on the message as it is
mod_is_quota_error(message) == Contains(message, <<"RESOURCE_", "EXHAUSTED">>)

\* lines 82-86: the awaited call is issued on the manager's client
mod_attempt(c, km) ==
  [c EXCEPT !.pc = "await", !.current_key = km.client, !.llm_calls = @ + 1]

\* lines 88-100: the except clause for exception e = [type, msg]
mod_handle_exception(c, km, e) ==
  IF mod_is_quota_error(e.msg)
    THEN LET r == get_next_key(km)
             c1 == [c EXCEPT !.rotations = Append(@, ~r.none)]
         IN IF r.none
              THEN [call |-> [c1 EXCEPT !.pc = "done",
                          !.result = Raise("ValueError", OutOfKeysMsg, <<>>)],
                    km |-> mod_reset(r.km)]
              ELSE [call |-> mod_attempt(c1, r.km), km |-> r.km]
    ELSE [call |-> [c EXCEPT !.pc = "done",
                      !.result = Raise(e.type, e.msg, <<>>)],
          km |-> km]

\* lines 84-100: what happens when the awaited call comes back with o
mod_handle_outcome(c, km, o) ==
  CASE o.kind = "error" ->
         mod_handle_exception(c, km, [type |-> o.type, msg |-> o.msg])
    [] o.kind = "none" ->
         mod_handle_exception(c, km, [type |-> "AttributeError",
                                      msg |-> NoneTypeMsg])
    [] OTHER ->
         [call |-> [c EXCEPT !.pc = "done", !.result = Return(o.text)],
          km |-> km]

\* ---------------------------------------------------------------- history
\* How the model remembers one LLM outcome of a call: its kind, and which
\* indicators its message carries (quota: 'quota', 'rate limit' or '429' in
\* any letter case; resource_exhausted: the literal RESOURCE_EXHAUSTED).
HasQuotaIndicator(msg) ==
  \E ind \in {<<"quota">>, <<"rate limit">>, <<"429">>} :
     Contains(Lower(msg), ind)

HasResourceExhausted(msg) == Contains(msg, <<"RESOURCE_", "EXHAUSTED">>)

Seen(o) ==
  [kind |-> IF o.kind = "error" THEN "error"
            ELSE IF o.kind = "response" /\ Truthy(o.text) THEN "text"
            ELSE "empty",
   quota |-> o.kind = "error" /\ HasQuotaIndicator(o.msg),
   resource_exhausted |-> o.kind = "error" /\ HasResourceExhausted(o.msg)]

\* ------------------------------------------ backend/modules/cache.py
NoData == [summary |-> "", tree |-> "", content |-> "", cached_at |-> -1]
\* CACHE_MAX_FILES and CACHE_TTL_SECONDS are scaled down: 2 files (100 in the
\* source) and 2 clock ticks (6 hours in the source).
CACHE_MAX_FILES == 2
CACHE_TTL_SECONDS == 2
MaxTime == 2

\* (owner, repo) pairs the cache is called with; names are token sequences
Repos ==
  { <<<<"a">>, <<"b", "_", "c">>>>,
    <<<<"a", "_", "b">>, <<"c">>>>,
    <<<<"x">>, <<"y">>>>,
    <<<<"p">>, <<"q">>>> }

\* the (summary, tree, content) values that are saved
Datas ==
  { [summary |-> "summary-1", tree |-> "tree-1", content |-> "content-1"],
    [summary |-> "summary-2", tree |-> "tree-2", content |-> "content-2"] }

\* f"{owner}_{repo}.json" (the directory part is the same for all)
get_cache_path(owner, repo) == owner \o <<"_">> \o repo \o <<".json">>

FileNames == { get_cache_path(k[1], k[2]) : k \in Repos }

\* a file: its text, its access time, and the time of the last load that
\* served it (hit_at, -1: none; kept for the claims only)
NoFile == [exists |-> FALSE, text |-> <<>>, atime |-> 0, hit_at |-> -1]

\* json.dump(cache_data, f) as the text it writes, json.load(f) as what it
\* reads back; a text that is not a complete object does not parse
json_dump(cache_data) == <<"{", cache_data, "}">>
json_parses(text) == Len(text) = 3 /\ text[1] = "{" /\ text[3] = "}"
json_load(text) == text[2]

\* open(path, "w") ... json.dump: the file is created with the current time
\* as its access time, or an existing file gets the new text and keeps its
\* access time
write_file(fs, path, text, t) ==
  [fs EXCEPT ![path] =
     IF fs[path].exists
       THEN [@ EXCEPT !.text = text]
       ELSE [exists |-> TRUE, text |-> text, atime |-> t, hit_at |-> -1]]

\* os.listdir(CACHE_DIR) filtered by f.endswith(".json")
listdir(fs) == {f \in DOMAIN fs : fs[f].exists /\ f[Len(f)] = ".json"}

files_to_remove_keep_one_less(fs, listing) ==
  IF Cardinality(listing) > CACHE_MAX_FILES
    THEN { R \in SUBSET listing :
             /\ Cardinality(R) = Cardinality(listing) - CACHE_MAX_FILES - 1
             /\ \A f \in R : \A g \in listing \ R : fs[f].atime <= fs[g].atime }
    ELSE { {} }

files_to_remove_newest(fs, listing) ==
  IF Cardinality(listing) > CACHE_MAX_FILES
    THEN { R \in SUBSET listing :
             /\ Cardinality(R) = Cardinality(listing) - CACHE_MAX_FILES
             /\ \A f \in R : \A g \in listing \ R : fs[f].atime >= fs[g].atime }
    ELSE { {} }

\* lines 31-42: the sets of files the sort by access time can put first
\* (os.listdir is in arbitrary order and the sort is stable, so among files
\* of equal access time any may come first)
files_to_remove(fs, listing) ==
  IF Cardinality(listing) > CACHE_MAX_FILES
    THEN { R \in SUBSET listing :
             /\ Cardinality(R) = Cardinality(listing) - CACHE_MAX_FILES
             /\ \A f \in R : \A g \in listing \ R : fs[f].atime <= fs[g].atime }
    ELSE { {} }

\* lines 43-44: os.remove of each file of R
remove_files(fs, R) == [f \in DOMAIN fs |-> IF f \in R THEN NoFile ELSE fs[f]]

\* _enforce_lru_cache_limit: the directories it can leave behind
enforce_lru_cache_limit(fs) ==
  { remove_files(fs, R) : R \in files_to_remove(fs, listdir(fs)) }

\* save_repo_cache: the directories it can leave behind
save_repo_cache(fs, owner, repo, d, t) ==
  LET path == get_cache_path(owner, repo)
      cache_data == [summary |-> d.summary, tree |-> d.tree,
                     content |-> d.content, cached_at |-> t]
  IN enforce_lru_cache_limit(write_file(fs, path, json_dump(cache_data), t))

load_without_utime(fs, path, t) == fs

\* line 80: os.utime(path, None)
utime(fs, path, t) == [fs EXCEPT ![path].atime = t]

expiry_check_inclusive(data, t) == t - data.cached_at <= CACHE_TTL_SECONDS

\* line 87: the expiry check
is_fresh(data, t) == t - data.cached_at < CACHE_TTL_SECONDS

\* load_repo_cache: the directory afterwards and the value returned
\* (hit: the dict read from the file; otherwise None)
load_repo_cache(fs, owner, repo, t) ==
  LET path == get_cache_path(owner, repo) IN
  IF ~fs[path].exists
    THEN [fs |-> fs, hit |-> FALSE, data |-> NoData]
    ELSE LET fs1 == utime(fs, path, t)
             data == json_load(fs1[path].text)
         IN IF is_fresh(data, t)
              THEN [fs |-> [fs1 EXCEPT ![path].hit_at = t],
                    hit |-> TRUE, data |-> data]
              ELSE [fs |-> fs1, hit |-> FALSE, data |-> NoData]

\* an LLM error that rejects the key for quota reasons, by any of the
\* indicators 'quota', 'rate limit', '429', 'resource_exhausted'
IsQuotaRejection(o) ==
  /\ o.kind = "error"
  /\ \/ HasQuotaIndicator(o.msg)
     \/ Contains(Lower(o.msg), <<"resource_", "exhausted">>)

\* the call record with outcome o of its awaited LLM call noted: rejected is
\* the set of keys on which this call saw a quota rejection
Observe(c, o) ==
  [c EXCEPT !.outcomes = Append(@, Seen(o)),
            !.last = o,
            !.rejected = IF IsQuotaRejection(o) THEN @ \cup {c.current_key}
                         ELSE @]

\* the call record c1 after a step from c: when the step requested a rotation,
\* rot_from is the key that was active when it did and rot_failed the key on
\* which the call had seen its failure
ObserveRotation(c, c1, active) ==
  IF Len(c1.rotations) > Len(c.rotations)
    THEN [c1 EXCEPT !.rot_from = active, !.rot_failed = c.current_key]
    ELSE c1

\* ------------------------------------------- backend/modules/ingest.py
\* Token counts are kept in tenths of a thousand tokens, so that 12.5K is 125
\* and the limit of 750.0 (K tokens) is 7500.
MAX_REPO_SIZE_IN_K_TOKENS == 7500

\* the text of the summaries gitingest returns, by the name the model gives
\* them
SummaryText(summary) ==
  CASE summary = "summary-1" ->
         <<"Repository: o/r\nFiles analyzed: 3\n\n", "Estimated tokens: ",
           "12.5", "K">>
    [] summary = "summary-3" ->
         <<"Repository: o/r\nFiles analyzed: 900\n\n", "Estimated tokens: ",
           "750.1", "K">>
    [] summary = "summary-4" ->
         <<"Repository: o/r\nFiles analyzed: 9000\n\n", "Estimated tokens: ",
           "1.2", "M">>
    [] OTHER -> <<"Repository: o/r\n">>

\* float(s) of the numbers that occur, in tenths
float(s) ==
  CASE s = <<"12.5">> -> 125
    [] s = <<"750.1">> -> 7501
    [] s = <<"1.2">> -> 12
    [] OTHER -> 0

\* summary.split("Estimated tokens: ")[-1]: what follows the last marker
after_last(text, marker) ==
  LET at == {i \in 1..Len(text) : text[i] = marker}
      last == CHOOSE i \in at : \A j \in at : j <= i
  IN SubSeq(text, last + 1, Len(text))

parse_token_count(text) ==
  IF ~Contains(text, <<"Estimated tokens: ">>)
    THEN 0
    ELSE LET tokens_str == after_last(text, "Estimated tokens: ")
             n == Len(tokens_str)
         IN IF n > 0 /\ tokens_str[n] = "M"
              THEN float(SubSeq(tokens_str, 1, n - 1)) * 1000
              ELSE IF n > 0 /\ tokens_str[n] = "K"
                THEN float(SubSeq(tokens_str, 1, n - 1))
                ELSE 0

RepoTooLarge == <<"error:repo_too_large">>
RepoNotFound == <<"error:repo_not_found">>
RepoPrivate == <<"error:repo_private">>

\* _check_token_limit: TRUE when it raises ValueError("error:repo_too_large")
check_token_limit(text) ==
  parse_token_count(text) > MAX_REPO_SIZE_IN_K_TOKENS

\* what gitingest's ingest_async comes back with: (summary, tree, content),
\* or an exception
IngestResults ==
  { [summary |-> s, tree |-> "tree-1", content |-> "content-1"] :
      s \in {"summary-1", "summary-3", "summary-4"} }

IngestErrorMessages ==
  { <<"Repository not found", ". Make sure it is public">>,
    <<"404 ", "Not Found">>,
    <<"Bad credentials">>,
    <<"403 ", "API rate limit exceeded", " for this address">>,
    <<"Connection reset by peer">> }

IngestOutcomes ==
  { [kind |-> "result", data |-> d, type |-> "", msg |-> <<>>] :
      d \in IngestResults }
  \cup { [kind |-> "error", data |-> NoData, type |-> "Exception", msg |-> m] :
           m \in IngestErrorMessages }
  \cup { [kind |-> "error", data |-> NoData, type |-> "ValueError",
          msg |-> <<"Repository not found", ". Make sure it is public">>] }

\* lines 96-98: ingest_repo once check_repo_exists has answered; Pending when
\* it goes on to ingest_async
ingest_repo_checked(exists) ==
  IF ~exists THEN Raise("ValueError", RepoNotFound, <<>>) ELSE Pending

\* lines 100-124: ingest_repo once ingest_async has come back with o; on
\* success the tuple returned is o.data
ingest_repo_returns(o) ==
  IF o.kind = "result"
    THEN IF check_token_limit(SummaryText(o.data.summary))
           THEN Raise("ValueError", RepoTooLarge, <<>>)
           ELSE Return(PyNone)
    ELSE IF o.type = "ValueError"
      THEN Raise(o.type, o.msg, <<>>)
      ELSE IF \/ Contains(o.msg, <<"Repository not found">>)
              \/ Contains(o.msg, <<"Not Found">>)
        THEN Raise("ValueError", RepoNotFound, <<>>)
        ELSE IF \/ Contains(o.msg, <<"Bad credentials">>)
                \/ Contains(o.msg, <<"API rate limit exceeded">>)
          THEN Raise("ValueError", RepoPrivate, <<>>)
          ELSE Raise(o.type, o.msg, <<>>)

\* --------------------------------------------------- backend/main.py
\* an HTTP answer: the status code and the message or detail
HttpResponse(status, detail) == [status |-> status, detail |-> detail]
NoResponseYet == HttpResponse(0, <<>>)
\* an exception no handler catches: the framework answers 500
InternalServerError == HttpResponse(500, <<"Internal Server Error">>)

LoadedFromCacheMsg == <<"Repository loaded from cache">>
ProcessedMsg == <<"Repository processed successfully">>
NotInCacheMsg ==
  <<"Repository not found in cache. Please initialize it first.">>

initialize_except_merged(e) ==
  IF e.type # "ValueError"
    THEN InternalServerError
    ELSE IF e.msg \in {RepoTooLarge, RepoNotFound, RepoPrivate}
      THEN HttpResponse(404, <<"Repository not found">>)
      ELSE HttpResponse(500, <<"Error processing repository: ">> \o e.msg)

\* lines 118-128: the except clause of initialize_repository for what
\* ingest_repo raised
initialize_except(e) ==
  IF e.type # "ValueError"
    THEN InternalServerError
    ELSE IF e.msg = RepoTooLarge
      THEN HttpResponse(413, <<"Repository is too large to process">>)
      ELSE IF e.msg = RepoNotFound
        THEN HttpResponse(404, <<"Repository not found">>)
        ELSE IF e.msg = RepoPrivate
          THEN HttpResponse(403, <<"Repository is private or inaccessible">>)
          ELSE HttpResponse(500, <<"Error processing repository: ">> \o e.msg)

\* a conversation history: (user message, assistant message) pairs; the
\* histories a client sends with a chat request
History(items) == [present |-> TRUE, items |-> items]
NoHistory == [present |-> FALSE, items |-> <<>>]
Histories == {<<>>, <<<<"q0", <<"r0">>>>>>}
Query == "q1"

updated_history_prepends(history, query, response) ==
  <<<<query, response>>>> \o history

\* line 168: history + [(query, response)]
updated_history(history, query, response) ==
  Append(history, <<query, response>>)

\* an HTTPException: the answer carries no history
Failed(response) == [response |-> response, history |-> NoHistory]

\* lines 163-182: what chat answers for the result r of generate_response;
\* response[:100] on None raises TypeError, which `except ValueError` lets
\* through
chat_returns(r, query, history) ==
  IF r.kind = "return"
    THEN IF r.value.is_none
           THEN Failed(InternalServerError)
           ELSE [response |-> HttpResponse(200, r.value.s),
                 history |-> History(updated_history(history, query,
                                                     r.value.s))]
    ELSE IF r.type # "ValueError"
      THEN Failed(InternalServerError)
      ELSE IF Contains(r.msg, <<"OUT_OF_KEYS">>)
        THEN Failed(HttpResponse(429, <<"All API keys have been ", "exhausted",
                                 ". Please try again in a few minutes.">>))
        ELSE Failed(HttpResponse(500,
                                 <<"Error generating response: ">> \o r.msg))

\* the request the server is handling, or the last one it answered.
\* pc: "idle", "check" (awaiting check_repo_exists), "ingest" (awaiting
\* ingest_async), "llm" (in generate_response), "done" (answer ready).
\* hit: what load_repo_cache returned; ingest_calls: ingest_repo calls made;
\* ingest_error: the message of the ValueError ingest_repo raised; saved_at:
\* the time of the request's save_repo_cache call (-1: none); sent: the texts
\* sent on the WebSocket
IdleRequest ==
  [pc |-> "idle", op |-> "none", owner |-> <<>>, repo |-> <<>>,
   client |-> "", hit |-> FALSE, ingest_calls |-> 0, ingest_error |-> <<>>,
   saved_at |-> -1, response |-> NoResponseYet, sent |-> <<>>,
   query |-> "", history |-> <<>>, updated_history |-> NoHistory]

\* --------------------------------- Backend/connection.manager.py
Clients == {"c1"}
DEFAULT_MAX_RETRIES == 2
MaxTurns == 2

NoRepoContext == [present |-> FALSE, tree |-> "", content |-> ""]
RepoContext(d) == [present |-> TRUE, tree |-> d.tree, content |-> d.content]

\* ConnectionManager.__init__: the three dicts are empty
ConnectionManager ==
  [active_connections |-> {},
   repo_contexts |-> [c \in Clients |-> NoRepoContext],
   chat_histories |-> [c \in Clients |-> [present |-> FALSE, items |-> <<>>]]]

\* the texts a client sends over its WebSocket
Messages == {"m1", "m2"}

\* lines 111-113: history.append((message, response))
append_turn(items, message, response) == Append(items, <<message, response>>)

\* lines 117-125: the text sent for exception e
error_message(e) ==
  IF Contains(Lower(e.msg), <<"exhausted">>)
    THEN <<"error:quota_exhausted">>
    ELSE <<"error:llm_failed">>

\* ------------------------------------------------------------------ state
\* a process that is in no cache call; started: the files stored when the
\* call began; ret: "ok" (save), "hit", "miss" or the exception raised
IdleCacheCall ==
  [pc |-> "idle", op |-> "none", path |-> <<>>, cache_data |-> NoData,
   offset |-> 0, started |-> {}, listing |-> {}, to_remove |-> <<>>,
   ret |-> "none", data |-> NoData]

\* cache_ret before any cache operation
NoCacheRet ==
  [op |-> "none", path |-> <<>>, at |-> 0, hit |-> FALSE, data |-> NoData,
   saved |-> NoData, removed |-> {}, listed |-> 0]

VARIABLES
  app,            \* "utils": Backend/src/utils/llm.py runs
  key_manager,    \* the global KeyManager of Backend/src/utils/llm.py
  calls,          \* calls[p]: the generate_response call of request p
  rotate_calls,   \* rotate_key() calls since construction or reset()
  api_ret,        \* what the last direct KeyManager call returned
  mod_key_manager, \* the global KeyManager of backend/modules/llm.py
  files,          \* the files of CACHE_DIR, by name
  now,            \* the clock: time.time() and the file system's timestamps
  cache_ret,      \* what the last cache operation did and returned
  cache_calls,    \* the cache call each process is in, step by step
  env,            \* os.environ when Backend/src/utils/llm.py is imported
  construction,   \* what `key_manager = KeyManager()` did
  request,        \* the request being handled, or the last one answered
  manager         \* the ConnectionManager of Backend/connection.manager.py

vars == <<app, key_manager, calls, rotate_calls, api_ret, mod_key_manager,
          files, now, cache_ret, cache_calls, env, construction,
          request, manager>>

\* n: for rotate_key, the number of this call since construction or reset()
\* before: current_key_index when the call was made
NoRet == [op |-> "none", key |-> "", ok |-> FALSE, n |-> 0, before |-> -1]

Init ==
  /\ app \in {"utils", "modules"}
  /\ \E n \in 0..MaxFallbacks :
       /\ key_manager = KeyManager(n)
       /\ mod_key_manager = ModKeyManager(n)
       /\ env = EnvOf(n)
  /\ construction = Return(PyNone)
  /\ request = IdleRequest
  /\ manager = ConnectionManager
  /\ calls = [p \in Procs |-> IdleCall]
  /\ rotate_calls = 0
  /\ api_ret = NoRet
  /\ files = [f \in FileNames |-> NoFile]
  /\ now = 0
  /\ cache_ret = NoCacheRet
  /\ cache_calls = [p \in Procs |-> IdleCacheCall]

NoCallInFlight == \A q \in Procs : calls[q].pc = "idle"

\* number of rotate_key() calls a step of call c added
NewRotations(c, c1) == Len(c1.rotations) - Len(c.rotations)

\* ------------------------------------------- direct KeyManager operations
GetCurrentKey ==
  /\ app = "utils"
  /\ NoCallInFlight
  /\ api_ret' = [op |-> "get_current_key", key |-> get_current_key(key_manager),
                 ok |-> TRUE, n |-> 0,
                 before |-> key_manager.current_key_index]
  /\ UNCHANGED <<request, manager, env, construction, files, now, cache_ret, cache_calls, app, key_manager, calls, rotate_calls, mod_key_manager>>

RotateKey ==
  /\ app = "utils"
  /\ NoCallInFlight
  /\ rotate_calls < MaxRotateCalls
  /\ LET r == rotate_key(key_manager) IN
       /\ key_manager' = r.km
       /\ api_ret' = [op |-> "rotate_key", key |-> "", ok |-> r.ret,
                     n |-> rotate_calls + 1,
                     before |-> key_manager.current_key_index]
  /\ rotate_calls' = rotate_calls + 1
  /\ UNCHANGED <<request, manager, env, construction, files, now, cache_ret, cache_calls, app, calls, mod_key_manager>>

Reset ==
  /\ app = "utils"
  /\ NoCallInFlight
  /\ key_manager' = reset(key_manager)
  /\ rotate_calls' = 0
  /\ api_ret' = [op |-> "reset", key |-> "", ok |-> TRUE, n |-> 0,
                 before |-> key_manager.current_key_index]
  /\ UNCHANGED <<request, manager, env, construction, files, now, cache_ret, cache_calls, app, calls, mod_key_manager>>

\* --------------------------------------------------- generate_response
\* the call is entered: retries = 0 and the first pass through the loop
GenerateResponse(p) ==
  /\ app = "utils"
  /\ NoCallInFlight
  /\ rotate_calls < MaxRotateCalls
  /\ \E m \in 0..MaxRetries :
       calls' = [calls EXCEPT ![p] =
                   attempt([IdleCall EXCEPT !.max_retries = m,
                              !.start_index = key_manager.current_key_index],
                           key_manager)]
  /\ UNCHANGED <<request, manager, env, construction, files, now, cache_ret, cache_calls, app, key_manager, rotate_calls, api_ret, mod_key_manager>>

\* the awaited LLM call of p comes back
LLMResponds(p) ==
  /\ app = "utils"
  /\ calls[p].pc = "await"
  /\ \E o \in LLMOutcomes :
       LET c == Observe(calls[p], o)
           h == handle_outcome(c, key_manager, o)
       IN /\ calls' = [calls EXCEPT ![p] =
               ObserveRotation(c, h.call, get_current_key(key_manager))]
          /\ key_manager' = h.km
          /\ rotate_calls' = rotate_calls + NewRotations(c, h.call)
  /\ UNCHANGED <<request, manager, env, construction, files, now, cache_ret, cache_calls, app, api_ret, mod_key_manager>>

\* the caller has taken the result of p's call
Finish(p) ==
  /\ app = "utils"
  /\ calls[p].pc = "done"
  /\ calls' = [calls EXCEPT ![p] = IdleCall]
  /\ UNCHANGED <<request, manager, env, construction, files, now, cache_ret, cache_calls, app, key_manager, rotate_calls, api_ret, mod_key_manager>>

\* ------------------------------ backend/modules/llm.py: generate_response
ModGenerateResponse(p) ==
  /\ app = "modules"
  /\ NoCallInFlight
  /\ calls' = [calls EXCEPT ![p] =
        mod_attempt([IdleCall EXCEPT
                       !.start_index = mod_key_manager.current_key_index],
                    mod_key_manager)]
  /\ UNCHANGED <<request, manager, env, construction, files, now, cache_ret, cache_calls, app, key_manager, rotate_calls, api_ret, mod_key_manager>>

ModLLMResponds(p) ==
  /\ app = "modules"
  /\ calls[p].pc = "await"
  /\ \E o \in LLMOutcomes :
       LET c == Observe(calls[p], o)
           h == mod_handle_outcome(c, mod_key_manager, o)
       IN /\ calls' = [calls EXCEPT ![p] =
               ObserveRotation(c, h.call, mod_key_manager.client)]
          /\ mod_key_manager' = h.km
  /\ UNCHANGED <<request, manager, env, construction, files, now, cache_ret, cache_calls, app, key_manager, rotate_calls, api_ret>>

ModFinish(p) ==
  /\ app = "modules"
  /\ calls[p].pc = "done"
  /\ calls' = [calls EXCEPT ![p] = IdleCall]
  /\ UNCHANGED <<request, manager, env, construction, files, now, cache_ret, cache_calls, app, key_manager, rotate_calls, api_ret, mod_key_manager>>

Next ==
  \/ GetCurrentKey
  \/ RotateKey
  \/ Reset
  \/ \E p \in Procs : GenerateResponse(p)
  \/ \E p \in Procs : LLMResponds(p)
  \/ \E p \in Procs : Finish(p)
  \/ \E p \in Procs : ModGenerateResponse(p)
  \/ \E p \in Procs : ModLLMResponds(p)
  \/ \E p \in Procs : ModFinish(p)

Spec == Init /\ [][Next]_vars

\* The event loop resumes a caller whose call has ended; nothing makes the
\* external LLM call come back.
SpecLive ==
  /\ Init
  /\ [][Next]_vars
  /\ WF_vars(\E p \in Procs : Finish(p))
  /\ WF_vars(\E p \in Procs : ModFinish(p))

\* ----------------------------------------------- concurrent requests
\* Two requests whose generate_response calls overlap: a call is entered
\* whatever the other request is doing, and the calls interleave at the
\* awaited LLM call (asyncio runs the code between two awaits in one piece).
ConcProcs == {1, 2}

ConcGenerateResponse(p) ==
  /\ app = "utils"
  /\ calls[p].pc = "idle"
  /\ \E m \in 0..MaxRetries :
       calls' = [calls EXCEPT ![p] =
                   attempt([IdleCall EXCEPT !.max_retries = m,
                              !.start_index = key_manager.current_key_index],
                           key_manager)]
  /\ UNCHANGED <<request, manager, env, construction, files, now, cache_ret, cache_calls, app, key_manager, rotate_calls, api_ret, mod_key_manager>>

ConcModGenerateResponse(p) ==
  /\ app = "modules"
  /\ calls[p].pc = "idle"
  /\ calls' = [calls EXCEPT ![p] =
        mod_attempt([IdleCall EXCEPT
                       !.start_index = mod_key_manager.current_key_index],
                    mod_key_manager)]
  /\ UNCHANGED <<request, manager, env, construction, files, now, cache_ret, cache_calls, app, key_manager, rotate_calls, api_ret, mod_key_manager>>

NextConc ==
  \/ \E p \in ConcProcs : ConcGenerateResponse(p)
  \/ \E p \in ConcProcs : LLMResponds(p)
  \/ \E p \in ConcProcs : ConcModGenerateResponse(p)
  \/ \E p \in ConcProcs : ModLLMResponds(p)

SpecConc == Init /\ [][NextConc]_vars

\* the KeyManager of backend/modules/llm.py as i successful get_next_key
\* calls of earlier requests have left it
ModKeyManagerAt(n, i) ==
  [ModKeyManager(n) EXCEPT
     !.current_key_index = i,
     !.tried_keys = IF i = 0 THEN {}
                    ELSE {MainKey} \cup {FallbackKey(j) : j \in 1..(i - 1)},
     !.client = IF i = 0 THEN MainKey ELSE FallbackKey(i)]

\* Concurrent generate_response calls of backend/modules/llm.py, one per
\* request, on a KeyManager that earlier requests may have moved; every
\* awaited LLM call comes back.
InitModConc ==
  /\ app = "modules"
  /\ \E n \in 0..MaxFallbacks :
       /\ key_manager = KeyManager(n)
       /\ env = EnvOf(n)
       /\ \E i \in 0..n : mod_key_manager = ModKeyManagerAt(n, i)
  /\ construction = Return(PyNone)
  /\ request = IdleRequest
  /\ manager = ConnectionManager
  /\ calls = [p \in Procs |-> IdleCall]
  /\ rotate_calls = 0
  /\ api_ret = NoRet
  /\ files = [f \in FileNames |-> NoFile]
  /\ now = 0
  /\ cache_ret = NoCacheRet
  /\ cache_calls = [p \in Procs |-> IdleCacheCall]

NextModConc ==
  \/ \E p \in ConcProcs : ConcModGenerateResponse(p)
  \/ \E p \in ConcProcs : ModLLMResponds(p)

SpecModLive ==
  /\ InitModConc
  /\ [][NextModConc]_vars
  /\ \A p \in ConcProcs : WF_vars(ModLLMResponds(p))

\* ----------------------------------- backend/modules/cache.py: operations
\* time passes
Tick ==
  /\ now < MaxTime
  /\ now' = now + 1
  /\ UNCHANGED <<request, manager, env, construction,
               app, key_manager, calls, rotate_calls, api_ret,
                 mod_key_manager, files, cache_ret, cache_calls>>

\* save_repo_cache(owner, repo, summary, tree, content), in one piece
SaveRepoCache ==
  /\ app = "modules"
  /\ \E k \in Repos : \E d \in Datas :
       \E fs \in save_repo_cache(files, k[1], k[2], d, now) :
         LET path == get_cache_path(k[1], k[2])
             listing == listdir(files) \cup {path}
         IN /\ files' = fs
            /\ cache_ret' =
                 [op |-> "save", path |-> path, at |-> now, hit |-> FALSE,
                  data |-> NoData,
                  saved |-> [summary |-> d.summary, tree |-> d.tree,
                             content |-> d.content, cached_at |-> now],
                  removed |-> listing \ listdir(fs),
                  listed |-> Cardinality(listing)]
  /\ UNCHANGED <<request, manager, env, construction,
               app, key_manager, calls, rotate_calls, api_ret,
                 mod_key_manager, now, cache_calls>>

\* load_repo_cache(owner, repo), in one piece
LoadRepoCache ==
  /\ app = "modules"
  /\ \E k \in Repos :
       LET l == load_repo_cache(files, k[1], k[2], now) IN
         /\ files' = l.fs
         /\ cache_ret' =
              [op |-> "load", path |-> get_cache_path(k[1], k[2]), at |-> now,
               hit |-> l.hit, data |-> l.data, saved |-> NoData,
               removed |-> listdir(files) \ listdir(l.fs),
               listed |-> Cardinality(listdir(files))]
  /\ UNCHANGED <<request, manager, env, construction,
               app, key_manager, calls, rotate_calls, api_ret,
                 mod_key_manager, now, cache_calls>>

NextCache ==
  \/ Tick
  \/ SaveRepoCache
  \/ LoadRepoCache

\* the cache does not depend on the LLM keys: one configuration is enough
InitCache ==
  /\ Init
  /\ app = "modules"
  /\ Len(mod_key_manager.fallback_keys) = 0

SpecCache == InitCache /\ [][NextCache]_vars

\* --------------- backend/modules/cache.py, step by step, in two processes
\* (server processes that share CACHE_DIR; inside one event loop the cache
\* functions have no await and run in one piece, as in SpecCache)

\* a part of a file that was never written
Hole(i) == IF i = 2 THEN NoData ELSE "NUL"

\* write(2) of chunk at position offset of a file's text
write_at(text, offset, chunk) ==
  LET n == IF Len(text) > offset + Len(chunk)
             THEN Len(text) ELSE offset + Len(chunk)
  IN [i \in 1..n |->
        IF i > offset /\ i <= offset + Len(chunk) THEN chunk[i - offset]
        ELSE IF i <= Len(text) THEN text[i] ELSE Hole(i)]

\* what json.load makes of a text: the dict, or JSONDecodeError
json_ok(text) == json_parses(text) /\ text[2] # NoData

\* the orders in which the sort of line 39 can put the files of R
sorted_by_atime(fs, R) ==
  { s \in [1..Cardinality(R) -> R] :
      /\ \A i, j \in 1..Cardinality(R) : i # j => s[i] # s[j]
      /\ \A i, j \in 1..Cardinality(R) :
           i < j => fs[s[i]].atime <= fs[s[j]].atime }

\* the directories a run can start with: CACHE_DIR as n earlier saves, one
\* per clock tick from time 0, have left it
RECURSIVE StoredDirs(_)
StoredDirs(n) ==
  IF n = 0 THEN { [f \in FileNames |-> NoFile] }
  ELSE UNION { UNION { save_repo_cache(fs, k[1], k[2], d, n - 1) :
                         k \in Repos, d \in Datas } :
               fs \in StoredDirs(n - 1) }

\* lines 104-113: path, cache_data, open(path, "w")
ConcSaveOpen(p) ==
  /\ cache_calls[p].pc = "idle"
  /\ \E k \in Repos : \E d \in Datas :
       LET path == get_cache_path(k[1], k[2]) IN
         /\ files' = write_file(files, path, <<>>, now)
         /\ cache_calls' = [cache_calls EXCEPT ![p] =
              [IdleCacheCall EXCEPT
                 !.pc = "dump", !.op = "save", !.path = path,
                 !.started = listdir(files),
                 !.cache_data = [summary |-> d.summary, tree |-> d.tree,
                                 content |-> d.content, cached_at |-> now]]]
  /\ UNCHANGED <<request, manager, env, construction,
               app, key_manager, calls, rotate_calls, api_ret,
                 mod_key_manager, now, cache_ret>>

\* line 114: json.dump writes the text in one piece or in two; a file that
\* was removed meanwhile is written without being in the directory
ConcSaveDump(p) ==
  LET c == cache_calls[p]
      text == json_dump(c.cache_data)
  IN /\ c.pc = "dump"
     /\ \E n \in {1, Len(text) - c.offset} :
          /\ c.offset + n <= Len(text)
          /\ files' =
               IF files[c.path].exists
                 THEN [files EXCEPT ![c.path].text =
                         write_at(@, c.offset,
                                  SubSeq(text, c.offset + 1, c.offset + n))]
                 ELSE files
          /\ cache_calls' = [cache_calls EXCEPT ![p] =
               [c EXCEPT !.offset = c.offset + n,
                         !.pc = IF c.offset + n = Len(text)
                                  THEN "listdir" ELSE "dump"]]
     /\ UNCHANGED <<request, manager, env, construction,
               app, key_manager, calls, rotate_calls, api_ret,
                    mod_key_manager, now, cache_ret>>

\* line 33: os.listdir(CACHE_DIR)
ConcSaveListdir(p) ==
  /\ cache_calls[p].pc = "listdir"
  /\ cache_calls' = [cache_calls EXCEPT ![p] =
       [@ EXCEPT !.listing = listdir(files), !.pc = "getatime"]]
  /\ UNCHANGED <<request, manager, env, construction,
               app, key_manager, calls, rotate_calls, api_ret,
                 mod_key_manager, files, now, cache_ret>>

\* lines 32-42: os.path.getatime of the listed files (FileNotFoundError if
\* one is gone), the sort and files_to_remove
ConcSaveGetatime(p) ==
  LET c == cache_calls[p] IN
  /\ c.pc = "getatime"
  /\ IF \E f \in c.listing : ~files[f].exists
       THEN cache_calls' = [cache_calls EXCEPT ![p] =
              [c EXCEPT !.pc = "done", !.ret = "FileNotFoundError"]]
       ELSE \E R \in files_to_remove(files, c.listing) :
              \E s \in sorted_by_atime(files, R) :
                cache_calls' = [cache_calls EXCEPT ![p] =
                  [c EXCEPT !.to_remove = s,
                            !.pc = IF s = <<>> THEN "done" ELSE "remove",
                            !.ret = IF s = <<>> THEN "ok" ELSE "none"]]
  /\ UNCHANGED <<request, manager, env, construction,
               app, key_manager, calls, rotate_calls, api_ret,
                 mod_key_manager, files, now, cache_ret>>

\* lines 43-44: os.remove of the next file (FileNotFoundError if it is gone)
ConcSaveRemove(p) ==
  LET c == cache_calls[p]
      f == Head(c.to_remove)
  IN /\ c.pc = "remove"
     /\ IF files[f].exists
          THEN /\ files' = remove_files(files, {f})
               /\ cache_calls' = [cache_calls EXCEPT ![p] =
                    [c EXCEPT !.to_remove = Tail(c.to_remove),
                              !.pc = IF Len(c.to_remove) = 1
                                       THEN "done" ELSE "remove",
                              !.ret = IF Len(c.to_remove) = 1
                                        THEN "ok" ELSE "none"]]
          ELSE /\ files' = files
               /\ cache_calls' = [cache_calls EXCEPT ![p] =
                    [c EXCEPT !.pc = "done", !.ret = "FileNotFoundError"]]
     /\ UNCHANGED <<request, manager, env, construction,
               app, key_manager, calls, rotate_calls, api_ret,
                    mod_key_manager, now, cache_ret>>

\* lines 74-77: path, os.path.exists(path)
ConcLoadExists(p) ==
  /\ cache_calls[p].pc = "idle"
  /\ \E k \in Repos :
       LET path == get_cache_path(k[1], k[2]) IN
         cache_calls' = [cache_calls EXCEPT ![p] =
           [IdleCacheCall EXCEPT
              !.op = "load", !.path = path, !.started = listdir(files),
              !.pc = IF files[path].exists THEN "utime" ELSE "done",
              !.ret = IF files[path].exists THEN "none" ELSE "miss"]]
  /\ UNCHANGED <<request, manager, env, construction,
               app, key_manager, calls, rotate_calls, api_ret,
                 mod_key_manager, files, now, cache_ret>>

\* line 80: os.utime(path, None) (FileNotFoundError if the file is gone)
ConcLoadUtime(p) ==
  LET c == cache_calls[p] IN
  /\ c.pc = "utime"
  /\ IF files[c.path].exists
       THEN /\ files' = utime(files, c.path, now)
            /\ cache_calls' = [cache_calls EXCEPT ![p].pc = "read"]
       ELSE /\ files' = files
            /\ cache_calls' = [cache_calls EXCEPT ![p] =
                 [c EXCEPT !.pc = "done", !.ret = "FileNotFoundError"]]
  /\ UNCHANGED <<request, manager, env, construction,
               app, key_manager, calls, rotate_calls, api_ret,
                 mod_key_manager, now, cache_ret>>

\* lines 82-90: open(path, "r"), json.load, the expiry check
ConcLoadRead(p) ==
  LET c == cache_calls[p]
      text == files[c.path].text
  IN /\ c.pc = "read"
     /\ cache_calls' = [cache_calls EXCEPT ![p] =
          IF ~files[c.path].exists
            THEN [c EXCEPT !.pc = "done", !.ret = "FileNotFoundError"]
          ELSE IF ~json_ok(text)
            THEN [c EXCEPT !.pc = "done", !.ret = "JSONDecodeError"]
          ELSE IF is_fresh(json_load(text), now)
            THEN [c EXCEPT !.pc = "done", !.ret = "hit",
                           !.data = json_load(text)]
          ELSE [c EXCEPT !.pc = "done", !.ret = "miss"]]
     /\ UNCHANGED <<request, manager, env, construction,
               app, key_manager, calls, rotate_calls, api_ret,
                    mod_key_manager, files, now, cache_ret>>

NextCacheConc ==
  \/ Tick
  \/ \E p \in ConcProcs : ConcSaveOpen(p)
  \/ \E p \in ConcProcs : ConcSaveDump(p)
  \/ \E p \in ConcProcs : ConcSaveListdir(p)
  \/ \E p \in ConcProcs : ConcSaveGetatime(p)
  \/ \E p \in ConcProcs : ConcSaveRemove(p)
  \/ \E p \in ConcProcs : ConcLoadExists(p)
  \/ \E p \in ConcProcs : ConcLoadUtime(p)
  \/ \E p \in ConcProcs : ConcLoadRead(p)

\* two processes, one cache call each, on a directory that CACHE_MAX_FILES
\* earlier saves have filled, the last of them at the current time
InitCacheConc ==
  /\ app = "modules"
  /\ key_manager = KeyManager(0)
  /\ mod_key_manager = ModKeyManager(0)
  /\ env = EnvOf(0)
  /\ construction = Return(PyNone)
  /\ request = IdleRequest
  /\ manager = ConnectionManager
  /\ calls = [p \in Procs |-> IdleCall]
  /\ rotate_calls = 0
  /\ api_ret = NoRet
  /\ cache_ret = NoCacheRet
  /\ cache_calls = [p \in Procs |-> IdleCacheCall]
  /\ now = CACHE_MAX_FILES - 1
  /\ files \in StoredDirs(CACHE_MAX_FILES)

SpecCacheConc == InitCacheConc /\ [][NextCacheConc]_vars

\* ------------------------------------- the import of Backend/src/utils/llm.py
\* the process starts in any environment; `key_manager = KeyManager()` has
\* not run yet
InitEnv ==
  /\ app = "utils"
  /\ env \in Envs
  /\ construction = Pending
  /\ key_manager = NoKeyManager
  /\ request = IdleRequest
  /\ manager = ConnectionManager
  /\ mod_key_manager = ModKeyManager(0)
  /\ calls = [p \in Procs |-> IdleCall]
  /\ rotate_calls = 0
  /\ api_ret = NoRet
  /\ files = [f \in FileNames |-> NoFile]
  /\ now = 0
  /\ cache_ret = NoCacheRet
  /\ cache_calls = [p \in Procs |-> IdleCacheCall]

\* key_manager = KeyManager()
Construct ==
  /\ app = "utils"
  /\ construction = Pending
  /\ LET r == KeyManager_init(env) IN
       /\ construction' = r.result
       /\ key_manager' = r.km
  /\ UNCHANGED <<request, manager, env, app, calls, rotate_calls, api_ret, mod_key_manager,
                 files, now, cache_ret, cache_calls>>

NextEnv == Construct

SpecEnv == InitEnv /\ [][NextEnv]_vars

\* ------------------------------------------------ the request handlers
\* One request at a time: POST /api/repository/initialize and POST /api/chat
\* of backend/main.py (app = "modules"), and the WebSocket messages of
\* Backend/connection.manager.py (app = "utils"). The handler's LLM call is
\* calls[1].
InitApp ==
  /\ Init
  /\ Len(key_manager.fallback_keys) <= 1

\* lines 87-103, and 105-107 up to the await in check_repo_exists
InitializeRepository ==
  /\ app = "modules"
  /\ request.pc = "idle"
  /\ \E k \in Repos :
       LET cached == load_repo_cache(files, k[1], k[2], now)
           r == [IdleRequest EXCEPT !.op = "initialize", !.owner = k[1],
                                    !.repo = k[2], !.hit = cached.hit]
       IN /\ files' = cached.fs
          /\ request' =
               IF cached.hit
                 THEN [r EXCEPT !.pc = "done",
                          !.response = HttpResponse(200, LoadedFromCacheMsg)]
                 ELSE [r EXCEPT !.pc = "check", !.ingest_calls = 1]
  /\ UNCHANGED <<env, construction, manager,
                 app, key_manager, calls, rotate_calls, api_ret,
                 mod_key_manager, now, cache_ret, cache_calls>>

\* check_repo_exists answers (ingest.py lines 20-38 and 96-98)
CheckRepoResponds ==
  /\ app = "modules"
  /\ request.pc = "check"
  /\ \E exists \in BOOLEAN :
       LET r == ingest_repo_checked(exists) IN
         request' =
           IF r.kind = "raise"
             THEN [request EXCEPT !.pc = "done", !.ingest_error = r.msg,
                                  !.response = initialize_except(r)]
             ELSE [request EXCEPT !.pc = "ingest"]
  /\ UNCHANGED <<env, construction, manager,
                 app, key_manager, calls, rotate_calls, api_ret,
                 mod_key_manager, files, now, cache_ret, cache_calls>>

\* ingest_async comes back (ingest.py lines 100-124), and initialize_repository
\* goes on to its end (main.py lines 107-128)
IngestResponds ==
  /\ app = "modules"
  /\ request.pc = "ingest"
  /\ \E o \in IngestOutcomes :
       LET r == ingest_repo_returns(o) IN
         IF r.kind = "return"
           THEN /\ files' \in save_repo_cache(files, request.owner,
                                              request.repo, o.data, now)
                /\ request' = [request EXCEPT !.pc = "done", !.saved_at = now,
                                 !.response = HttpResponse(200, ProcessedMsg)]
           ELSE /\ files' = files
                /\ request' =
                     [request EXCEPT !.pc = "done",
                        !.ingest_error = IF r.type = "ValueError" THEN r.msg
                                         ELSE <<>>,
                        !.response = initialize_except(r)]
  /\ UNCHANGED <<env, construction, manager,
                 app, key_manager, calls, rotate_calls, api_ret,
                 mod_key_manager, now, cache_ret, cache_calls>>

\* main.py lines 139-164: chat up to the awaited LLM call
Chat ==
  /\ app = "modules"
  /\ request.pc = "idle"
  /\ \E k \in Repos : \E h \in Histories :
       LET cached == load_repo_cache(files, k[1], k[2], now)
           r == [IdleRequest EXCEPT !.op = "chat", !.owner = k[1],
                                    !.repo = k[2], !.hit = cached.hit,
                                    !.query = Query, !.history = h]
       IN /\ files' = cached.fs
          /\ IF ~cached.hit
               THEN /\ request' = [r EXCEPT !.pc = "done",
                                     !.response = HttpResponse(404, NotInCacheMsg)]
                    /\ calls' = calls
               ELSE /\ request' = [r EXCEPT !.pc = "llm"]
                    /\ calls' = [calls EXCEPT ![1] =
                         mod_attempt([IdleCall EXCEPT !.start_index =
                                        mod_key_manager.current_key_index],
                                     mod_key_manager)]
  /\ UNCHANGED <<env, construction, manager,
                 app, key_manager, rotate_calls, api_ret,
                 mod_key_manager, now, cache_ret, cache_calls>>

\* main.py lines 164-182: generate_response has ended
ChatReturns ==
  /\ app = "modules"
  /\ request.pc = "llm"
  /\ calls[1].pc = "done"
  /\ LET a == chat_returns(calls[1].result, request.query, request.history)
     IN request' = [request EXCEPT !.pc = "done",
                                   !.response = a.response,
                                   !.updated_history = a.history]
  /\ calls' = [calls EXCEPT ![1] = IdleCall]
  /\ UNCHANGED <<env, construction, manager,
                 app, key_manager, rotate_calls, api_ret,
                 mod_key_manager, files, now, cache_ret, cache_calls>>

\* the answer goes out; the server is free for the next request
SendResponse ==
  /\ request.pc = "done"
  /\ request' = [request EXCEPT !.pc = "idle"]
  /\ UNCHANGED <<env, construction, manager,
                 app, key_manager, calls, rotate_calls, api_ret,
                 mod_key_manager, files, now, cache_ret, cache_calls>>

\* ConnectionManager.connect (lines 27-59)
Connect(c) ==
  /\ app = "utils"
  /\ request.pc = "idle"
  /\ c \notin manager.active_connections
  /\ manager' = [manager EXCEPT
                   !.active_connections = @ \cup {c},
                   !.chat_histories[c] = [present |-> TRUE, items |-> <<>>]]
  /\ request' = [IdleRequest EXCEPT !.op = "connect", !.client = c,
                                    !.pc = "done",
                                    !.sent = <<<<"repo_processed">>>>]
  /\ UNCHANGED <<env, construction,
                 app, key_manager, calls, rotate_calls, api_ret,
                 mod_key_manager, files, now, cache_ret, cache_calls>>

\* lines 38-56: the class leaves storing the repository context to the
\* application that embeds it
StoreRepoContext(c) ==
  /\ app = "utils"
  /\ request.pc = "idle"
  /\ c \in manager.active_connections
  /\ ~manager.repo_contexts[c].present
  /\ \E d \in Datas :
       manager' = [manager EXCEPT !.repo_contexts[c] = RepoContext(d)]
  /\ UNCHANGED <<env, construction, request,
                 app, key_manager, calls, rotate_calls, api_ret,
                 mod_key_manager, files, now, cache_ret, cache_calls>>

\* handle_message (lines 77-106) up to the awaited LLM call
HandleMessage(c) ==
  /\ app = "utils"
  /\ request.pc = "idle"
  /\ rotate_calls < MaxRotateCalls
  /\ Len(manager.chat_histories[c].items) < MaxTurns
  /\ \E message \in Messages :
     LET r == [IdleRequest EXCEPT !.op = "message", !.client = c,
                                  !.query = message] IN
       IF c \notin manager.active_connections
         THEN /\ request' = [r EXCEPT !.pc = "done"]
              /\ calls' = calls
         ELSE IF ~manager.repo_contexts[c].present
           THEN /\ request' = [r EXCEPT !.pc = "done",
                                 !.sent = <<<<"error:no_repo_context">>>>]
                /\ calls' = calls
           ELSE /\ request' = [r EXCEPT !.pc = "llm", !.hit = TRUE]
                /\ calls' = [calls EXCEPT ![1] =
                     attempt([IdleCall EXCEPT
                                !.max_retries = DEFAULT_MAX_RETRIES,
                                !.start_index = key_manager.current_key_index],
                             key_manager)]
  /\ UNCHANGED <<env, construction, manager,
                 app, key_manager, rotate_calls, api_ret,
                 mod_key_manager, files, now, cache_ret, cache_calls>>

\* handle_message (lines 106-125) once generate_response has ended
MessageHandled ==
  /\ app = "utils"
  /\ request.pc = "llm"
  /\ calls[1].pc = "done"
  /\ \E connected \in BOOLEAN :
       LET r == calls[1].result
           c == request.client
           h == manager.chat_histories[c]
       IN IF ~connected
            THEN \* send_text raises, in the try block or in the except clause
                 /\ request' = [request EXCEPT !.pc = "done",
                                               !.response = InternalServerError]
                 /\ manager' = manager
            ELSE IF r.kind = "return"
              THEN /\ request' = [request EXCEPT !.pc = "done",
                                                 !.sent = <<r.value.s>>]
                   /\ manager' = [manager EXCEPT !.chat_histories[c] =
                        History(append_turn(h.items, request.query,
                                            r.value.s))]
              ELSE /\ request' = [request EXCEPT !.pc = "done",
                                                 !.sent = <<error_message(r)>>]
                   /\ manager' = manager
  /\ calls' = [calls EXCEPT ![1] = IdleCall]
  /\ UNCHANGED <<env, construction,
                 app, key_manager, rotate_calls, api_ret,
                 mod_key_manager, files, now, cache_ret, cache_calls>>

\* ConnectionManager.disconnect (lines 127-136)
Disconnect(c) ==
  /\ app = "utils"
  /\ request.pc = "idle"
  /\ c \in manager.active_connections
  /\ manager' = [manager EXCEPT
                   !.active_connections = @ \ {c},
                   !.repo_contexts[c] = NoRepoContext,
                   !.chat_histories[c] = [present |-> FALSE, items |-> <<>>]]
  /\ UNCHANGED <<env, construction, request,
                 app, key_manager, calls, rotate_calls, api_ret,
                 mod_key_manager, files, now, cache_ret, cache_calls>>

AppTick ==
  /\ app = "modules"
  /\ Tick

NextApp ==
  \/ InitializeRepository
  \/ CheckRepoResponds
  \/ IngestResponds
  \/ Chat
  \/ ChatReturns
  \/ SendResponse
  \/ AppTick
  \/ \E c \in Clients : Connect(c)
  \/ \E c \in Clients : StoreRepoContext(c)
  \/ \E c \in Clients : HandleMessage(c)
  \/ MessageHandled
  \/ \E c \in Clients : Disconnect(c)
  \/ \E p \in Procs : LLMResponds(p)
  \/ \E p \in Procs : ModLLMResponds(p)

SpecApp == InitApp /\ [][NextApp]_vars

TypeOK ==
  /\ key_manager.current_key_index \in -1..(Len(key_manager.fallback_keys) - 1)
  /\ \A p \in Procs : calls[p].pc \in {"idle", "await", "done"}

\* ================================================================ claims
NumFallbacks == Len(key_manager.fallback_keys)
Min(a, b) == IF a < b THEN a ELSE b
Last(s) == s[Len(s)]
NumTrue(s) == Cardinality({i \in 1..Len(s) : s[i]})
AllTrue(s) == \A i \in 1..Len(s) : s[i]

\* the key that is active after j successful rotations from the primary
KeyAfter(j) == IF j = 0 THEN PrimaryKey ELSE FallbackKey(j)

IsQuotaFailure(h) == h.kind = "error" /\ h.quota
\* the first k outcomes of the call were quota failures
QuotaFailures(c, k) ==
  /\ k <= Len(c.outcomes)
  /\ \A i \in 1..k : IsQuotaFailure(c.outcomes[i])
AllQuotaFailures(c) ==
  c.outcomes # <<>> /\ QuotaFailures(c, Len(c.outcomes))
\* quota failures only, then possibly one text: K is the number of failures
FailedThenText(c, k) ==
  /\ QuotaFailures(c, k)
  /\ \/ Len(c.outcomes) = k
     \/ Len(c.outcomes) = k + 1 /\ Last(c.outcomes).kind = "text"

IsKeysExhausted(r) == r.kind = "raise" /\ r.msg = KeysExhaustedMsg
IsRetriesExceeded(r) == r.kind = "raise" /\ r.msg = MaxRetriesMsg

\* C1: from the primary key with N fallbacks, the j-th rotate_key() call
\* returns True exactly when j <= N and leaves fallback j active; later calls
\* return False and leave the index at the last fallback (the primary when
\* N = 0); the index never wraps around.
C1_RotateNoWraparound ==
  app = "utils" =>
    /\ key_manager.current_key_index = Min(rotate_calls, NumFallbacks) - 1
    /\ get_current_key(key_manager) = KeyAfter(Min(rotate_calls, NumFallbacks))
    /\ api_ret.op = "rotate_key" => api_ret.ok = (api_ret.n <= NumFallbacks)
    /\ \A p \in Procs :
         calls[p].rotations # <<>> =>
           Last(calls[p].rotations) = (rotate_calls <= NumFallbacks)

C1_Witness ==
  /\ app = "utils"
  /\ NumFallbacks >= 2
  /\ api_ret.op = "rotate_key" /\ ~api_ret.ok
  /\ api_ret.n = NumFallbacks + 2
  /\ get_current_key(key_manager) = FallbackKey(NumFallbacks)

\* what C2 promises for a call that saw k quota failures and then a text
SucceededAfter(c, k) ==
  /\ Len(c.outcomes) = k + 1
  /\ c.result = Return(c.last.text)
  /\ Truthy(c.last.text)
  /\ c.llm_calls = k + 1
  /\ Len(c.rotations) = k /\ AllTrue(c.rotations)
  /\ key_manager.current_key_index = k - 1
  /\ get_current_key(key_manager) = KeyAfter(k)

\* C2 as stated: a call from the primary key whose LLM calls fail K < N times
\* with a quota message and then succeed returns the text after K+1 LLM
\* calls and K rotations, for every retry budget.
C2_Original ==
  \A p \in Procs : \A k \in 0..(MaxFallbacks + 1) :
    ( /\ app = "utils"
      /\ calls[p].pc = "done"
      /\ calls[p].start_index = -1
      /\ k < NumFallbacks
      /\ FailedThenText(calls[p], k) )
    => SucceededAfter(calls[p], k)

\* C2 amended: the same for every K < N with K <= max_retries.
C2_SuccessWithinBudget ==
  \A p \in Procs : \A k \in 0..(MaxFallbacks + 1) :
    ( /\ app = "utils"
      /\ calls[p].pc = "done"
      /\ calls[p].start_index = -1
      /\ k < NumFallbacks
      /\ k <= calls[p].max_retries
      /\ FailedThenText(calls[p], k) )
    => SucceededAfter(calls[p], k)

C2_Witness ==
  \E p \in Procs :
    /\ app = "utils"
    /\ calls[p].pc = "done"
    /\ calls[p].start_index = -1
    /\ calls[p].max_retries = 2
    /\ NumFallbacks = 3
    /\ FailedThenText(calls[p], 2)
    /\ calls[p].result = Return(Str(<<"Finally successful">>))
    /\ get_current_key(key_manager) = FallbackKey(2)

\* C3 as stated: a call from the primary key whose every LLM call fails with
\* a quota message ends with 'All API keys exhausted', for every N and every
\* retry budget.
C3_Original ==
  \A p \in Procs :
    ( /\ app = "utils"
      /\ calls[p].pc = "done"
      /\ calls[p].start_index = -1
      /\ AllQuotaFailures(calls[p]) )
    => IsKeysExhausted(calls[p].result)

\* C3 amended: the same when N <= max_retries; the call then made N+1 LLM
\* calls, one on each key.
C3_ExhaustedWithinBudget ==
  \A p \in Procs :
    ( /\ app = "utils"
      /\ calls[p].pc = "done"
      /\ calls[p].start_index = -1
      /\ NumFallbacks <= calls[p].max_retries
      /\ AllQuotaFailures(calls[p]) )
    => /\ IsKeysExhausted(calls[p].result)
       /\ calls[p].result.type = "Exception"
       /\ calls[p].llm_calls = NumFallbacks + 1

C3_Witness ==
  \E p \in Procs :
    /\ app = "utils"
    /\ calls[p].pc = "done"
    /\ calls[p].start_index = -1
    /\ NumFallbacks = 2 /\ calls[p].max_retries = 2
    /\ AllQuotaFailures(calls[p])
    /\ IsKeysExhausted(calls[p].result)
    /\ calls[p].llm_calls = 3

\* C4: a call with budget m makes at most m+1 LLM calls; when every LLM call
\* failed with a quota message and every rotate_key() returned True it made
\* exactly m+1 calls and raised 'Max retries exceeded'.
C4_AtMostBudgetPlusOneCalls ==
  \A p \in Procs :
    app = "utils" =>
      /\ calls[p].llm_calls <= calls[p].max_retries + 1
      /\ ( /\ calls[p].pc = "done"
           /\ AllQuotaFailures(calls[p])
           /\ Len(calls[p].rotations) = Len(calls[p].outcomes)
           /\ AllTrue(calls[p].rotations) )
         => /\ calls[p].llm_calls = calls[p].max_retries + 1
            /\ calls[p].result = Raise("Exception", MaxRetriesMsg, <<>>)

C4_Witness ==
  \E p \in Procs :
    /\ app = "utils"
    /\ calls[p].pc = "done"
    /\ calls[p].max_retries = 1
    /\ calls[p].llm_calls = 2
    /\ AllQuotaFailures(calls[p])
    /\ AllTrue(calls[p].rotations)
    /\ IsRetriesExceeded(calls[p].result)

\* C5: 'All API keys exhausted' is raised only right after a rotate_key() of
\* the call returned False; 'Max retries exceeded' only when every
\* rotate_key() of the call returned True and the budget ran out; a call
\* whose every LLM attempt failed with a quota message ends with exactly one
\* of the two.
C5_ExhaustedVersusRetries ==
  \A p \in Procs :
    (app = "utils" /\ calls[p].pc = "done") =>
      /\ IsKeysExhausted(calls[p].result) =>
           /\ calls[p].rotations # <<>>
           /\ ~Last(calls[p].rotations)
           /\ Len(calls[p].rotations) = Len(calls[p].outcomes)
      /\ IsRetriesExceeded(calls[p].result) =>
           /\ AllTrue(calls[p].rotations)
           /\ calls[p].retries > calls[p].max_retries
           /\ calls[p].retries = Len(calls[p].rotations)
      /\ AllQuotaFailures(calls[p]) =>
           IsKeysExhausted(calls[p].result) # IsRetriesExceeded(calls[p].result)

C5_Witness ==
  \E p \in Procs :
    /\ app = "utils"
    /\ calls[p].pc = "done"
    /\ IsKeysExhausted(calls[p].result)
    /\ calls[p].rotations = <<TRUE, TRUE, FALSE>>
    /\ calls[p].max_retries = 2

\* C6 as stated: one call with budget m performs at most m key rotations.
C6_Claim ==
  \A p \in Procs :
    app = "utils" => NumTrue(calls[p].rotations) <= calls[p].max_retries

\* an outcome whose message carries none of the indicators 'quota',
\* 'rate limit', '429', 'resource_exhausted', in any letter case
NoQuotaIndicator(o) ==
  /\ o.kind = "error"
  /\ ~HasQuotaIndicator(o.msg)
  /\ ~Contains(Lower(o.msg), <<"resource_", "exhausted">>)

\* the key the running application would use for its next LLM call
ActiveKey ==
  IF app = "utils" THEN get_current_key(key_manager) ELSE mod_key_manager.client

\* the call ended at its last outcome: nothing was sent after it, no rotation
\* was requested for it and the active key is the one the last LLM call used
EndedAtLastOutcome(c) ==
  /\ c.pc = "done"
  /\ c.llm_calls = Len(c.outcomes)
  /\ Len(c.rotations) = Len(c.outcomes) - 1
  /\ ActiveKey = c.current_key

\* C7: in both invokers an LLM error without a quota indicator ends the call
\* at that attempt: no further LLM call, no rotation request, the active key
\* unchanged, and the error reaches the caller ('LLM generation failed: ...'
\* in Backend/src/utils/llm.py, the error itself in backend/modules/llm.py);
\* as the first outcome it leaves exactly one LLM call made.
C7_NonQuotaErrorIsTerminal ==
  \A p \in Procs :
    NoQuotaIndicator(calls[p].last) =>
      /\ EndedAtLastOutcome(calls[p])
      /\ Len(calls[p].outcomes) = 1 => calls[p].llm_calls = 1
      /\ app = "utils" =>
           /\ calls[p].result.kind = "raise"
           /\ calls[p].result.type = "Exception"
           /\ calls[p].result.msg = GenerationFailedPrefix \o calls[p].last.msg
      /\ app = "modules" =>
           /\ calls[p].result.kind = "raise"
           /\ calls[p].result.type = calls[p].last.type
           /\ calls[p].result.msg = calls[p].last.msg

C7_Witness ==
  \E p \in Procs :
    /\ app = "utils"
    /\ calls[p].pc = "done"
    /\ calls[p].last = Error("Exception", <<"Invalid request format">>)
    /\ calls[p].llm_calls = 2
    /\ calls[p].rotations = <<TRUE>>
    /\ get_current_key(key_manager) = FallbackKey(1)

IsEmptyOutcome(o) ==
  \/ o.kind = "none"
  \/ o.kind = "response" /\ (o.text.is_none \/ o.text.s = <<>>)

\* C8: in Backend/src/utils/llm.py an LLM call that returns no response
\* object, or a response with empty or missing text, fails the call at once:
\* no further LLM call, no rotate_key(), KeyManager unchanged.
C8_EmptyResponseIsTerminal ==
  \A p \in Procs :
    (app = "utils" /\ IsEmptyOutcome(calls[p].last)) =>
      /\ EndedAtLastOutcome(calls[p])
      /\ calls[p].result.kind = "raise"
      /\ key_manager.current_key_index =
           calls[p].start_index + NumTrue(calls[p].rotations)

C8_Witness ==
  \E p \in Procs :
    /\ app = "utils"
    /\ calls[p].pc = "done"
    /\ calls[p].last = Response(PyNone)
    /\ calls[p].llm_calls = 2
    /\ calls[p].rotations = <<TRUE>>
    /\ calls[p].result.kind = "raise"

\* C9 as stated: whenever generate_response returns normally, in either
\* invoker, the returned value is a non-empty text.
C9_Claim ==
  \A p \in Procs :
    calls[p].result.kind = "return" => Truthy(calls[p].result.value)

\* the error kind a caller can tell from the exception it catches
ErrorKind(r) ==
  CASE r.msg = KeysExhaustedMsg -> "KeysExhausted"
    [] r.msg = MaxRetriesMsg -> "RetriesExceeded"
    [] r.msg = EmptyResponseMsg -> "EmptyResponse"
    [] Len(r.msg) > 0 /\ SubSeq(r.msg, 1, 1) = GenerationFailedPrefix ->
         "GenerationFailed"
    [] OTHER -> "Other"

\* C10 as stated: the terminal failures of generate_response in
\* Backend/src/utils/llm.py reach the caller as distinct error kinds; an
\* empty LLM response is reported as EmptyResponse, a non-quota LLM error as
\* GenerationFailed.
C10_Claim ==
  \A p \in Procs :
    (app = "utils" /\ calls[p].result.kind = "raise") =>
      /\ ErrorKind(calls[p].result) \in
           {"KeysExhausted", "RetriesExceeded", "EmptyResponse",
            "GenerationFailed"}
      /\ IsEmptyOutcome(calls[p].last) =>
           ErrorKind(calls[p].result) = "EmptyResponse"
      /\ NoQuotaIndicator(calls[p].last) =>
           ErrorKind(calls[p].result) = "GenerationFailed"

\* every credential of the running application's KeyManager
AllKeys ==
  IF app = "utils"
    THEN {PrimaryKey} \cup {key_manager.fallback_keys[i] : i \in 1..NumFallbacks}
    ELSE {MainKey} \cup {mod_key_manager.fallback_keys[i] :
                           i \in 1..Len(mod_key_manager.fallback_keys)}

IsOutOfKeys(r) == r.kind = "raise" /\ r.msg = OutOfKeysMsg

\* C11 as stated: whenever a call ends with KeysExhausted ('All API keys
\* exhausted' / OUT_OF_KEYS), that call has tried every credential, the
\* primary and each fallback, and each was rejected for quota reasons; for
\* every call of any sequence of calls on the global KeyManager.
C11_Claim ==
  \A p \in Procs :
    (IsKeysExhausted(calls[p].result) \/ IsOutOfKeys(calls[p].result)) =>
      calls[p].rejected = AllKeys

\* C20: reset() from any state - primary, a fallback, or exhausted - makes
\* the primary key active: get_current_key() returns the primary key and a
\* following rotate_key() succeeds whenever there is a fallback at all
\* (stated for as long as no rotate_key() has followed the reset).
C20_ResetToPrimary ==
  (app = "utils" /\ api_ret.op = "reset" /\ rotate_calls = 0) =>
    /\ key_manager.current_key_index = -1
    /\ get_current_key(key_manager) = PrimaryKey
    /\ rotate_key(key_manager).ret = (NumFallbacks >= 1)

C20_Witness ==
  /\ app = "utils"
  /\ api_ret.op = "reset"
  /\ NumFallbacks = 3
  /\ api_ret.before = 2
  /\ rotate_calls = 0
  /\ get_current_key(key_manager) = PrimaryKey

\* C17 as stated: with concurrent generate_response calls on the global
\* KeyManager, every rotation moves away from the key on which the rotating
\* request saw its quota failure, that key still being the active one; no
\* fallback is rotated past without having been tried.
C17_Claim ==
  \A p \in Procs :
    (calls[p].rot_from # "" /\ Last(calls[p].rotations)) =>
      calls[p].rot_from = calls[p].rot_failed


\* ------------------------------------------------- claims on the cache
\* a step that is a load_repo_cache call / a save_repo_cache call
LoadStep == cache_ret'.op = "load" /\ now' = now
SaveStep == cache_ret'.op = "save" /\ now' = now

\* the recency marker of file f when the save of a step has written its file
RecencyAtSave(f) ==
  IF f = cache_ret'.path /\ ~files[f].exists THEN now ELSE files[f].atime

\* C12: save_repo_cache(o, r, s, t, c) followed immediately by
\* load_repo_cache(o, r) returns an entry with summary s, tree t, content c
\* and a cached_at no older than the time of the save, from any cache state
C12_RoundTrip ==
  [][(/\ cache_ret.op = "save"
      /\ cache_ret.at = now
      /\ LoadStep
      /\ cache_ret'.path = cache_ret.path)
       => /\ cache_ret'.hit
          /\ cache_ret'.data.summary = cache_ret.saved.summary
          /\ cache_ret'.data.tree = cache_ret.saved.tree
          /\ cache_ret'.data.content = cache_ret.saved.content
          /\ cache_ret'.data.cached_at >= cache_ret.at]_vars

\* C13: load_repo_cache returns the stored entry if and only if a record
\* exists at the key's path and now - cached_at < CACHE_TTL_SECONDS (strict);
\* otherwise it returns a miss; a load never deletes or changes the record
C13_LoadIffFresh ==
  [][LoadStep =>
       LET rec == files[cache_ret'.path]
           fresh == /\ rec.exists
                    /\ now - rec.text[2].cached_at < CACHE_TTL_SECONDS
       IN /\ cache_ret'.hit <=> fresh
          /\ cache_ret'.hit => cache_ret'.data = rec.text[2]
          /\ ~cache_ret'.hit => cache_ret'.data = NoData
          /\ rec.exists => /\ files'[cache_ret'.path].exists
                           /\ files'[cache_ret'.path].text = rec.text]_vars

\* a load missed on a record whose age is exactly the TTL, and the record is
\* still stored
C13_Witness ==
  /\ cache_ret.op = "load"
  /\ ~cache_ret.hit
  /\ cache_ret.at = now
  /\ files[cache_ret.path].exists
  /\ now - files[cache_ret.path].text[2].cached_at = CACHE_TTL_SECONDS

\* C14: a save that raises the entry count to c > CACHE_MAX_FILES removes
\* exactly c - CACHE_MAX_FILES entries, none of them with a newer recency
\* marker than an entry that is kept, and leaves CACHE_MAX_FILES entries; a
\* save that does not raise the count above CACHE_MAX_FILES removes nothing
C14_EvictsOldest ==
  [][SaveStep =>
       LET before == listdir(files) \cup {cache_ret'.path}
           after == listdir(files')
           removed == before \ after
           c == Cardinality(before)
       IN /\ after \subseteq before
          /\ IF c > CACHE_MAX_FILES
               THEN /\ Cardinality(removed) = c - CACHE_MAX_FILES
                    /\ Cardinality(after) = CACHE_MAX_FILES
                    /\ \A f \in removed : \A g \in after :
                         RecencyAtSave(f) <= RecencyAtSave(g)
               ELSE removed = {}]_vars

\* the save of key number CACHE_MAX_FILES + 1 evicted one older entry
C14_Witness ==
  /\ cache_ret.op = "save"
  /\ cache_ret.listed = CACHE_MAX_FILES + 1
  /\ Cardinality(cache_ret.removed) = 1
  /\ cache_ret.path \notin cache_ret.removed
  /\ \A g \in listdir(files) : files[g].atime > 0

\* C15: in a sequential run the number of stored entries is at most
\* CACHE_MAX_FILES after every operation, and entries disappear only in a
\* save_repo_cache call
C15_Capacity ==
  [][/\ Cardinality(listdir(files')) <= CACHE_MAX_FILES
     /\ ~(listdir(files) \subseteq listdir(files')) => SaveStep]_vars

\* a load on a full cache after a save that had to evict
C15_Witness ==
  /\ cache_ret.op = "load"
  /\ cache_ret.listed = CACHE_MAX_FILES
  /\ Cardinality(listdir(files)) = CACHE_MAX_FILES
  /\ \E f \in FileNames : ~files[f].exists /\ files[f] = NoFile

\* C16: an entry that was hit-loaded later than the last access of another
\* stored entry is not evicted by a later save that keeps the other entry
C16_HitRefreshesRecency ==
  [][SaveStep =>
       \A f \in listdir(files) \ listdir(files') : \A g \in listdir(files') :
         ~(files[f].hit_at > RecencyAtSave(g))]_vars

\* an evicting save kept an entry whose recency marker comes from a hit
C16_Witness ==
  /\ cache_ret.op = "save"
  /\ cache_ret.removed # {}
  /\ \E f \in listdir(files) :
       /\ f # cache_ret.path
       /\ files[f].hit_at >= 0
       /\ files[f].hit_at = files[f].atime
       /\ files[f].text[2].cached_at < files[f].hit_at


\* C18: a load_repo_cache that runs concurrently with a save_repo_cache for
\* the same key returns the complete previous entry, the complete new entry
\* or a miss, never an error or a partial record; two concurrent saves for
\* the same key leave one complete record equal to one of the two written
C18_Claim ==
  \A p \in ConcProcs : \A q \in ConcProcs \ {p} :
    LET c == cache_calls[p]
        d == cache_calls[q]
    IN /\ (c.op = "load" /\ c.pc = "done" /\ d.op = "save" /\ d.path = c.path)
            => /\ c.ret \in {"hit", "miss"}
               /\ c.ret = "hit" => c.data # NoData
       /\ (/\ c.op = "save" /\ c.pc = "done"
           /\ d.op = "save" /\ d.pc = "done" /\ d.path = c.path
           /\ files[c.path].exists)
            => /\ json_ok(files[c.path].text)
               /\ files[c.path].text[2] \in {c.cache_data, d.cache_data}

\* C19: two save_repo_cache calls for different keys whose steps interleave
\* both complete without error, both written entries are complete, the entry
\* count is at most CACHE_MAX_FILES afterwards and no more entries were
\* removed than needed to return to CACHE_MAX_FILES
C19_Claim ==
  \A p \in ConcProcs : \A q \in ConcProcs \ {p} :
    LET c == cache_calls[p]
        d == cache_calls[q]
        all == c.started \cup d.started \cup {c.path, d.path}
        left == Cardinality(listdir(files))
    IN (/\ c.op = "save" /\ c.pc = "done"
        /\ d.op = "save" /\ d.pc = "done" /\ d.path # c.path)
         => /\ c.ret = "ok"
            /\ d.ret = "ok"
            /\ files[c.path].exists
            /\ json_ok(files[c.path].text)
            /\ files[c.path].text[2] = c.cache_data
            /\ left <= CACHE_MAX_FILES
            /\ Cardinality(all) > CACHE_MAX_FILES => left = CACHE_MAX_FILES
            /\ Cardinality(all) <= CACHE_MAX_FILES => left = Cardinality(all)


\* ------------------------------------------- claims on the KeyManager
\* C21: across get_current_key, rotate_key and generate_response steps on
\* the KeyManager of Backend/src/utils/llm.py, current_key_index never
\* decreases; the only step that lowers it is a reset()
C21_IndexNeverDecreases ==
  [][(/\ app = "utils"
      /\ key_manager'.current_key_index < key_manager.current_key_index)
       => /\ api_ret'.op = "reset"
          /\ api_ret'.before = key_manager.current_key_index
          /\ key_manager'.current_key_index = -1
          /\ rotate_calls' = 0
          /\ calls' = calls]_vars

\* a generate_response call that started on a fallback has moved the index up
C21_Witness ==
  /\ app = "utils"
  /\ \E p \in Procs :
       /\ calls[p].pc = "done"
       /\ calls[p].start_index >= 0
       /\ key_manager.current_key_index > calls[p].start_index

\* C22: in every reachable state of the KeyManager of
\* Backend/src/utils/llm.py, -1 <= current_key_index <= len(fallback_keys) - 1,
\* and get_current_key() returns the primary key or an existing fallback key
C22_IndexInRange ==
  app = "utils" =>
    /\ key_manager.current_key_index >= -1
    /\ key_manager.current_key_index <= Len(key_manager.fallback_keys) - 1
    /\ api_ret.op = "get_current_key" => api_ret.key \in AllKeys

\* get_current_key() returned the last fallback
C22_Witness ==
  /\ app = "utils"
  /\ api_ret.op = "get_current_key"
  /\ NumFallbacks >= 2
  /\ key_manager.current_key_index = NumFallbacks - 1
  /\ api_ret.key = FallbackKey(NumFallbacks)

\* C25 as stated: an LLM error requests a rotation exactly when its message
\* contains, in any letter case, 'quota', 'rate limit', '429' or
\* 'resource_exhausted', in both LLM invokers. (Every outcome before the last
\* one was followed by a rotation, so the last one requested a rotation
\* exactly when there are as many rotation requests as outcomes.)
C25_Claim ==
  \A p \in Procs :
    calls[p].last.kind = "error" =>
      (Len(calls[p].rotations) = Len(calls[p].outcomes)
         <=> IsQuotaRejection(calls[p].last))

\* C29 as stated: every generate_response call eventually ends, with a text
\* or with a terminal error, even when the external LLM call never responds
C29_Claim ==
  \A p \in Procs : (calls[p].pc = "await") ~> (calls[p].pc = "done")

\* the key of the j-th LLM call of a backend/modules/llm.py call that started
\* on the main key and has rotated after every call
ModKeyAt(j) ==
  IF j = 1 THEN MainKey ELSE mod_key_manager.fallback_keys[j - 1]

\* C30: backend/modules/llm.py, from the reset state with N fallbacks, every
\* LLM call failing with RESOURCE_EXHAUSTED: the call tries the main key and
\* then each fallback once, in configured order (N+1 LLM calls), get_next_key
\* returns a key N times and then None, and the call raises OUT_OF_KEYS
C30_ModTriesEachKeyInOrder ==
  \A p \in Procs :
    LET c == calls[p]
        n == Len(mod_key_manager.fallback_keys)
    IN (/\ app = "modules"
        /\ c.pc # "idle"
        /\ c.start_index = 0
        /\ \A i \in 1..Len(c.outcomes) : c.outcomes[i].resource_exhausted)
         => /\ c.pc = "await" =>
                 /\ c.llm_calls <= n + 1
                 /\ c.current_key = ModKeyAt(c.llm_calls)
                 /\ mod_key_manager.client = c.current_key
                 /\ Len(c.rotations) = c.llm_calls - 1
                 /\ AllTrue(c.rotations)
            /\ c.pc = "done" =>
                 /\ IsOutOfKeys(c.result)
                 /\ c.llm_calls = n + 1
                 /\ Len(c.rotations) = n + 1
                 /\ \A i \in 1..n : c.rotations[i]
                 /\ ~c.rotations[n + 1]
                 /\ c.rejected = AllKeys

\* a call on 3 fallbacks ended with OUT_OF_KEYS after 4 LLM calls
C30_Witness ==
  /\ app = "modules"
  /\ Len(mod_key_manager.fallback_keys) = 3
  /\ \E p \in Procs :
       /\ calls[p].pc = "done"
       /\ calls[p].start_index = 0
       /\ calls[p].llm_calls = 4
       /\ IsOutOfKeys(calls[p].result)
       /\ \A i \in 1..4 : calls[p].outcomes[i].resource_exhausted

\* the numbered slots GEMINI_API_KEY_2 .. that hold a non-empty value
TruthySlot(i) == ~is_falsy(getenv(env, i))

\* C23: constructing the KeyManager with GEMINI_API_KEY unset or empty always
\* fails with the configuration error 'GEMINI_API_KEY must be set' and yields
\* no manager, whatever fallback variables are set.
C23_PrimaryKeyRequired ==
  ( /\ app = "utils"
    /\ construction # Pending
    /\ (~env[1].set \/ env[1].value = "") )
  => /\ construction.kind = "raise"
     /\ construction.type = "ValueError"
     /\ Contains(construction.msg, <<"GEMINI_API_KEY must be set">>)
     /\ key_manager = NoKeyManager

C23_Witness ==
  /\ app = "utils"
  /\ env[1] = EnvSet("")
  /\ \A i \in 2..MaxSlot : env[i] = EnvSet(SlotKey(i))
  /\ construction.kind = "raise"

\* C24: a successful construction loads as fallbacks exactly the values of
\* GEMINI_API_KEY_2, GEMINI_API_KEY_3, ... in numeric order, up to but
\* excluding the first unset or empty slot; keys behind a gap are not loaded.
C24_FallbacksUpToFirstGap ==
  ( /\ app = "utils"
    /\ construction.kind = "return" )
  => LET fk == key_manager.fallback_keys
         n == Len(fk)
     IN /\ n <= MaxSlot - 1
        /\ \A j \in 1..n : TruthySlot(j + 1) /\ fk[j] = env[j + 1].value
        /\ ~TruthySlot(n + 2)
        /\ key_manager.primary_key = env[1].value

C24_Witness ==
  /\ app = "utils"
  /\ construction.kind = "return"
  /\ env[2] = EnvSet(SlotKey(2))
  /\ env[3] \in {Unset, EnvSet("")}
  /\ env[4] = EnvSet(SlotKey(4))
  /\ key_manager.fallback_keys = <<FallbackKey(1)>>

\* a step in which the server takes up a new request of kind op
Starts(op) ==
  request.pc = "idle" /\ request'.pc # "idle" /\ request'.op = op

\* the record of (owner, repo) is there and within its time to live at time t
Servable(fs, owner, repo, t) ==
  LET path == get_cache_path(owner, repo) IN
    /\ fs[path].exists
    /\ t - json_load(fs[path].text).cached_at < CACHE_TTL_SECONDS

ServedFromCache(r) ==
  /\ r.pc = "done"
  /\ r.response = HttpResponse(200, LoadedFromCacheMsg)
  /\ r.ingest_calls = 0

\* C26: initialize_repository consults the cache first and calls ingest_repo
\* only on a miss; after a successful ingestion it saves the result before it
\* returns, so that a second initialize for the same pair within the TTL, with
\* nothing evicted in between, is served from the cache without an ingestion.
C26_Claim ==
  [][ /\ Starts("initialize") =>
           /\ request'.ingest_calls > 0 <=>
                ~Servable(files, request'.owner, request'.repo, now)
           /\ Servable(files, request'.owner, request'.repo, now) =>
                ServedFromCache(request')
      /\ ( /\ request.pc = "ingest"
           /\ request'.response = HttpResponse(200, ProcessedMsg) )
         => request'.saved_at = now
      /\ ( /\ Starts("initialize")
           /\ request.op = "initialize"
           /\ request.response = HttpResponse(200, ProcessedMsg)
           /\ request'.owner = request.owner
           /\ request'.repo = request.repo
           /\ now - request.saved_at < CACHE_TTL_SECONDS )
         => ServedFromCache(request')
    ]_vars

\* C27: chat for a pair that has no servable cache entry (never initialized,
\* expired or evicted) answers 404 without an LLM call, without an ingestion
\* and without a key rotation, and chat never ingests or saves; a WebSocket
\* message of a client without repository context is answered with
\* error:no_repo_context in the same way.
C27_ChatNeedsContext ==
  [][ /\ ( /\ Starts("chat")
           /\ ~Servable(files, request'.owner, request'.repo, now) )
         => /\ request'.pc = "done"
            /\ request'.response = HttpResponse(404, NotInCacheMsg)
            /\ calls' = calls
            /\ mod_key_manager' = mod_key_manager
      /\ request'.op = "chat"
         => /\ request'.pc \notin {"check", "ingest"}
            /\ request'.ingest_calls = 0
            /\ request'.saved_at = -1
            /\ \A f \in FileNames :
                 /\ files'[f].exists = files[f].exists
                 /\ files'[f].text = files[f].text
      /\ ( /\ Starts("message")
           /\ request'.client \in manager.active_connections
           /\ ~manager.repo_contexts[request'.client].present )
         => /\ request'.pc = "done"
            /\ request'.sent = <<<<"error:no_repo_context">>>>
            /\ calls' = calls
            /\ key_manager' = key_manager
            /\ manager' = manager
    ]_vars

\* chat has answered 404 for a record that is there but expired, while a
\* fallback key is active
C27_Witness ==
  /\ request.op = "chat"
  /\ request.pc = "done"
  /\ request.response.status = 404
  /\ files[get_cache_path(request.owner, request.repo)].exists
  /\ mod_key_manager.client = FallbackKey(1)
  /\ calls[1].pc = "idle"

\* the status initialize_repository answers for each ingestion error
StatusOf(code) ==
  CASE code = RepoNotFound -> 404
    [] code = RepoTooLarge -> 413
    [] code = RepoPrivate -> 403

\* C28: when ingest_repo fails with error:repo_not_found, error:repo_too_large
\* or error:repo_private, initialize_repository has made exactly one ingestion
\* call, answers 404, 413 and 403 respectively, and writes nothing to the
\* cache.
C28_IngestionErrorsPassThrough ==
  [][ ( /\ request.pc \in {"check", "ingest"}
        /\ request'.pc = "done"
        /\ request'.ingest_error \in {RepoNotFound, RepoTooLarge, RepoPrivate} )
      => /\ request'.response.status = StatusOf(request'.ingest_error)
         /\ request'.ingest_calls = 1
         /\ request'.saved_at = -1
         /\ files' = files
    ]_vars

C28_Witness ==
  /\ request.op = "initialize"
  /\ request.pc = "done"
  /\ request.ingest_error = RepoPrivate
  /\ request.response.status = 403
  /\ \E f \in FileNames : files[f].exists

\* ---------------------------------------- claims on the state between calls
\* C31: generate_response of Backend/src/utils/llm.py never resets the global
\* KeyManager: while a call runs and when it has ended, the index is the one
\* the call started with plus its successful rotations; a call starts on the
\* key that was active before it, and ending a call leaves the manager alone,
\* so the primary key comes back only with an explicit reset().
C31_NoResetByGenerateResponse ==
  [][ app = "utils" =>
        \A p \in Procs :
          /\ calls'[p].pc # "idle" =>
               key_manager'.current_key_index =
                 calls'[p].start_index + NumTrue(calls'[p].rotations)
          /\ (calls[p].pc = "idle" /\ calls'[p].pc # "idle") =>
               /\ calls'[p].start_index = key_manager.current_key_index
               /\ calls'[p].current_key = get_current_key(key_manager)
               /\ key_manager' = key_manager
          /\ (calls[p].pc = "done" /\ calls'[p].pc = "idle") =>
               key_manager' = key_manager
          /\ (calls[p].pc # "idle" /\ calls[p].start_index >= 0) =>
               get_current_key(key_manager') # PrimaryKey
    ]_vars

\* a call that started on a fallback left by an earlier call has rotated and
\* then run out of keys; the last fallback stays active
C31_Witness ==
  /\ app = "utils"
  /\ \E p \in Procs :
       /\ calls[p].pc = "done"
       /\ calls[p].start_index = 0
       /\ IsKeysExhausted(calls[p].result)
       /\ NumTrue(calls[p].rotations) = 1
       /\ key_manager.current_key_index = 1

\* the key that index i of the KeyManager of backend/modules/llm.py denotes
ModKeyOfIndex(km, i) == IF i = 0 THEN km.main_key ELSE km.fallback_keys[i]

\* C32: a generate_response call of backend/modules/llm.py that raises
\* OUT_OF_KEYS has reset the KeyManager (index 0, tried_keys empty, client on
\* the main key), so the next call starts on the main key; every other exit
\* leaves the key where the call's rotations moved it.
C32_OutOfKeysResets ==
  [][ app = "modules" =>
        \A p \in Procs :
          /\ (calls'[p].pc = "done" /\ IsOutOfKeys(calls'[p].result)) =>
               /\ mod_key_manager'.current_key_index = 0
               /\ mod_key_manager'.tried_keys = {}
               /\ mod_key_manager'.client = MainKey
          /\ (calls'[p].pc = "done" /\ ~IsOutOfKeys(calls'[p].result)) =>
               /\ mod_key_manager'.current_key_index =
                    calls'[p].start_index + NumTrue(calls'[p].rotations)
               /\ mod_key_manager'.client =
                    ModKeyOfIndex(mod_key_manager',
                                  mod_key_manager'.current_key_index)
          /\ (calls[p].pc = "idle" /\ calls'[p].pc # "idle") =>
               /\ calls'[p].current_key = mod_key_manager.client
               /\ mod_key_manager' = mod_key_manager
          /\ (calls[p].pc = "done" /\ calls'[p].pc = "idle") =>
               mod_key_manager' = mod_key_manager
    ]_vars

\* a call that started on the first fallback has run out of keys and left the
\* manager on the main key
C32_Witness ==
  /\ app = "modules"
  /\ Len(mod_key_manager.fallback_keys) >= 2
  /\ \E p \in Procs :
       /\ calls[p].pc = "done"
       /\ calls[p].start_index = 1
       /\ IsOutOfKeys(calls[p].result)
       /\ mod_key_manager.current_key_index = 0
       /\ mod_key_manager.client = MainKey

\* C33: generate_response of backend/modules/llm.py terminates when every
\* LLM call returns: a call that runs alone from index i makes at most
\* N - i + 1 LLM calls, and concurrent calls on the shared KeyManager all end,
\* also when one of them resets the index under the other.
C33_ModTerminates ==
  /\ [](\A p \in ConcProcs :
          (\A q \in ConcProcs \ {p} : calls[q].pc = "idle") =>
             calls[p].llm_calls <=
               Len(mod_key_manager.fallback_keys) - calls[p].start_index + 1)
  /\ \A p \in ConcProcs : (calls[p].pc = "await") ~> (calls[p].pc = "done")

\* both calls have ended, one with OUT_OF_KEYS and the reset, the other after
\* more LLM calls than a call alone could make
C33_Witness ==
  \E p, q \in ConcProcs :
    /\ calls[p].pc = "done" /\ IsOutOfKeys(calls[p].result)
    /\ calls[q].pc = "done"
    /\ calls[q].llm_calls >
         Len(mod_key_manager.fallback_keys) - calls[q].start_index + 1

\* C34: the KeyManager of backend/modules/llm.py always has
\* 0 <= current_key_index <= len(fallback_keys) and its client bound to the
\* key the index denotes (the main key for 0, fallback_keys[i-1] for i >= 1);
\* a get_next_key call that returns None leaves the index and the client as
\* they were.
C34_ModIndexAndClient ==
  app = "modules" =>
    LET km == mod_key_manager
        r == get_next_key(km)
    IN /\ km.current_key_index >= 0
       /\ km.current_key_index <= Len(km.fallback_keys)
       /\ km.client = ModKeyOfIndex(km, km.current_key_index)
       /\ r.none =>
            /\ r.km.current_key_index = km.current_key_index
            /\ r.km.client = km.client
       /\ ~r.none =>
            /\ r.km.current_key_index = km.current_key_index + 1
            /\ r.km.client = r.key
            /\ r.key = ModKeyOfIndex(km, km.current_key_index + 1)

\* a call is waiting on the last of three fallbacks, where get_next_key
\* returns None
C34_Witness ==
  /\ app = "modules"
  /\ mod_key_manager.current_key_index = 3
  /\ mod_key_manager.client = FallbackKey(3)
  /\ get_next_key(mod_key_manager).none
  /\ \E p \in Procs : calls[p].pc = "await" /\ calls[p].llm_calls = 4

\* the record in file f is past its time to live at time t
Expired(fs, f, t) ==
  fs[f].exists /\ ~(t - json_load(fs[f].text).cached_at < CACHE_TTL_SECONDS)

\* C35: load_repo_cache refreshes the recency marker of an existing record
\* before it checks the record's age: after the load the record is the most
\* recently used one, also when it is expired and the load reports a miss (so
\* a later save never evicts it while it keeps a less recently used entry);
\* a load for a key without a record changes nothing in the cache.
C35_LoadRefreshesBeforeAgeCheck ==
  [][ /\ LoadStep =>
           LET f == cache_ret'.path IN
             IF files[f].exists
               THEN /\ files'[f].exists
                    /\ files'[f].text = files[f].text
                    /\ files'[f].atime = now
                    /\ \A g \in listdir(files') :
                         files'[g].atime <= files'[f].atime
                    /\ \A g \in FileNames \ {f} : files'[g] = files[g]
                    /\ cache_ret'.hit = ~Expired(files, f, now)
               ELSE files' = files /\ ~cache_ret'.hit
      /\ ( /\ SaveStep
           /\ cache_ret.op = "load"
           /\ ~cache_ret.hit
           /\ files[cache_ret.path].exists
           /\ cache_ret.path \notin listdir(files') )
         => \A g \in listdir(files') :
              RecencyAtSave(g) >= files[cache_ret.path].atime
    ]_vars

\* a load has reported an expired record as a miss and left it more recently
\* used than a valid entry
C35_Witness ==
  /\ cache_ret.op = "load"
  /\ ~cache_ret.hit
  /\ Expired(files, cache_ret.path, now)
  /\ files[cache_ret.path].atime = now
  /\ \E g \in listdir(files) :
       /\ ~Expired(files, g, now)
       /\ files[g].atime < now

\* the time of the last save_repo_cache call that wrote file f
SavedAt(fs, f) == json_load(fs[f].text).cached_at

\* C36: save_repo_cache counts as an access of the entry it writes, also when
\* it overwrites an existing record: a save never evicts an entry that was
\* saved later than the last access of an entry it keeps.
C36_Claim ==
  [][SaveStep =>
       \A f \in listdir(files) \ listdir(files') : \A g \in listdir(files') :
         ~(SavedAt(files, f) > RecencyAtSave(g))]_vars

\* what load_repo_cache(owner, repo) would return on directory fs at time t
LoadResult(fs, owner, repo, t) ==
  LET l == load_repo_cache(fs, owner, repo, t) IN <<l.hit, l.data>>

\* C37: distinct (owner, repo) pairs have distinct records: when
\* initialize_repository saves the record of (o1, r1) and the save evicts
\* nothing, load_repo_cache(o2, r2) returns what it returned before for every
\* other pair (o2, r2).
C37_Claim ==
  [][ ( /\ request.pc = "ingest"
        /\ request'.saved_at = now
        /\ listdir(files) \subseteq listdir(files') )
      => \A k \in Repos :
           k # <<request.owner, request.repo>> =>
             LoadResult(files', k[1], k[2], now) =
               LoadResult(files, k[1], k[2], now)
    ]_vars


\* the history of client c held by the ConnectionManager
HistoryOf(m, c) == m.chat_histories[c].items

\* h2 is h1 with exactly one pair (query, response) appended at the end
ExtendsByOne(h1, h2, query, response) ==
  /\ Len(h2) = Len(h1) + 1
  /\ \A i \in 1..Len(h1) : h2[i] = h1[i]
  /\ h2[Len(h2)] = <<query, response>>

\* the handler's await of generate_response has delivered a text
LLMAnswered ==
  /\ calls[1].result.kind = "return"
  /\ ~calls[1].result.value.is_none

\* C38: a chat turn that succeeds extends the history by exactly the pair
\* (query, response) at the end, earlier pairs unchanged and in order; a turn
\* that fails (no context, an LLM error, nothing delivered) leaves the history
\* unchanged and answers with no updated history.  For the chat endpoint the
\* history is the one of the request, the updated one is in the answer; for
\* handle_message it is the ConnectionManager's history of the client.
C38_HistoryGrowsByOnePair ==
  [][ /\ request'.pc = "done" /\ request.pc # "done" /\ request'.op = "chat"
        => /\ request.pc # "idle" => request'.history = request.history
           /\ IF request'.response.status = 200
                THEN /\ request.pc = "llm" /\ LLMAnswered
                     /\ request'.updated_history.present
                     /\ ExtendsByOne(request.history,
                                     request'.updated_history.items,
                                     request.query,
                                     calls[1].result.value.s)
                     /\ request'.response.detail = calls[1].result.value.s
                ELSE request'.updated_history = NoHistory
      /\ request'.pc = "done" /\ request.pc # "done" /\ request'.op = "message"
        => LET c == request'.client IN
           IF request.pc = "llm" /\ calls[1].result.kind = "return"
              /\ request'.sent # <<>>
             THEN /\ request'.sent = <<calls[1].result.value.s>>
                  /\ ExtendsByOne(HistoryOf(manager, c), HistoryOf(manager', c),
                                  request.query, calls[1].result.value.s)
             ELSE manager'.chat_histories = manager.chat_histories
      /\ \A c \in Clients :
           HistoryOf(manager', c) # HistoryOf(manager, c)
             => \/ HistoryOf(manager', c) = <<>>
                \/ /\ request.pc = "llm" /\ request'.pc = "done"
                   /\ request.op = "message" /\ request.client = c
                   /\ Len(HistoryOf(manager', c)) = Len(HistoryOf(manager, c)) + 1
    ]_vars

\* a chat request with one earlier pair has been answered with two pairs
C38_Witness ==
  /\ request.op = "chat" /\ request.pc = "done"
  /\ request.response.status = 200
  /\ Len(request.history) = 1
  /\ Len(request.updated_history.items) = 2

====
